---- MODULE Spec2Model ----
(***************************************************************************)
(* Socket-proxy core of the netstack server (src/socket_functions.c):      *)
(* per-connection IOState, the two wait queues, the handle watcher's       *)
(* wait-set, the stream and datagram pipelines, close and half-close.      *)
(*                                                                         *)
(* Every C function is an operator from a state record s (the bundle of    *)
(* all variables) to the state it leaves; functions with a result return   *)
(* [s |-> state, r |-> status].  Actions apply one whole handler to the    *)
(* current state.  Kernel objects (byte pipe, channel, wait-set), the      *)
(* NetBackend and the files of the repository that are not part of the     *)
(* source tree (iostate.c, request_queue.c, dispatcher.c, multiplexer) are *)
(* modelled from their use in socket_functions.c and from the            *)
(* specification.                                                          *)
(*                                                                         *)
(* Stream bytes are identified by their position in the stream they come   *)
(* from: the k-th byte the backend ever returned for a socket is byte k of *)
(* the network stream, the k-th byte the client wrote into its pipe is     *)
(* byte k of the client stream.  A buffer's contents are then a base       *)
(* position, and a byte sequence is a list of runs <<first, length>>.      *)
(***************************************************************************)
EXTENDS Integers, Sequences, FiniteSets, TLC

\* ---------------------------------------------------------------- bounds
NIos == 1
MaxArrive == 1
MaxCliWrite == 1
MaxDgram == 1
MaxRio == 2
PipeCap == 65535
SendCap == 65535
MaxFaults == 1
MaxTail == 6
MaxChild == 3
MaxAccepted == 1
MaxAccept == 3
MaxIncoming == 2
MaxRounds == 3
MaxLiveArrive == 2
MaxBufs == 3
NHolders == 3
MaxPoolCalls == 7
MaxOps == 2

\* ------------------------------------------------------ program constants
RWBUF_SIZE == 65536

PENDING_NET == "PENDING_NET"
PENDING_SOCKET == "PENDING_SOCKET"
\* The handler did not return: the process was aborted in it.
ABORTED == "ABORTED"
NO_ERROR == "NO_ERROR"
ERR_SHOULD_WAIT == "ERR_SHOULD_WAIT"
ERR_PEER_CLOSED == "ERR_PEER_CLOSED"
ERR_IO == "ERR_IO"

HANDLE_TYPE_NONE == "NONE"
HANDLE_TYPE_STREAM == "STREAM"
HANDLE_TYPE_DGRAM == "DGRAM"

READABLE == "READABLE"
WRITABLE == "WRITABLE"
PEER_CLOSED == "PEER_CLOSED"
HALFCLOSED == "HALFCLOSED"
Signals == {READABLE, WRITABLE, PEER_CLOSED, HALFCLOSED}

EVENT_READ == "EVENT_READ"
EVENT_WRITE == "EVENT_WRITE"
EVENT_EXCEPT == "EVENT_EXCEPT"
EVENT_ALL == {EVENT_READ, EVENT_WRITE, EVENT_EXCEPT}

EWOULDBLOCK == "EWOULDBLOCK"
EINPROGRESS == "EINPROGRESS"
ECONNRESET == "ECONNRESET"
EISCONN == "EISCONN"
EINVAL == "EINVAL"
ERANGE == "ERANGE"
EBADF == "EBADF"
SOL_SOCKET == "SOL_SOCKET"
SO_ERROR == "SO_ERROR"
SO_TYPE == "SO_TYPE"

NULL == 0
NUL == "NUL"
ERR_INVALID_ARGS == "ERR_INVALID_ARGS"
ERR_INTERNAL == "ERR_INTERNAL"

\* The handles and the data bytes a RIO message can carry.
MXIO_MAX_HANDLES == 3
MXIO_CHUNK_SIZE == 8192

\* The sizes of the reply structures the handlers leave in msg->datalen:
\* sizeof(int), sizeof(struct sockaddr), sizeof(struct mxrio_sockopt_req_reply),
\* sizeof(struct mxrio_sockaddr_reply), sizeof(struct mxrio_gai_reply) and
\* sizeof(netc_get_if_info_t); the last two fit MXIO_CHUNK_SIZE by the
\* static_asserts of their handlers.
INT_SIZE == 4
SOCKADDR_SIZE == 16
SOCKOPT_REPLY_SIZE == 20
SOCKADDR_REPLY_SIZE == 136
GAI_REPLY_SIZE == 712
IF_INFO_SIZE == 6664

SOCK_STREAM == 1
SOCK_DGRAM == 2

MXRIO_SOCKET_DIR_NONE == <<"n", "o", "n", "e">>
MXRIO_SOCKET_DIR_SOCKET == <<"s", "o", "c", "k", "e", "t">>
MXRIO_SOCKET_DIR_ACCEPT == <<"a", "c", "c", "e", "p", "t">>

DigitVal == [c \in {"0", "1", "2", "3", "4", "5", "6", "7", "8", "9"} |->
               CASE c = "0" -> 0 [] c = "1" -> 1 [] c = "2" -> 2
                 [] c = "3" -> 3 [] c = "4" -> 4 [] c = "5" -> 5
                 [] c = "6" -> 6 [] c = "7" -> 7 [] c = "8" -> 8
                 [] c = "9" -> 9]

\* offsetof(mxio_socket_msg_t, data): sockaddr_storage, socklen_t, flags
MXIO_SOCKET_MSG_HEADER_SIZE == 128 + 4 + 4

IosIds == 1..(NIos + MaxChild)
Fds == 0..(NIos + MaxChild - 1)
FdKeys == {-1} \cup Fds

Min(a, b) == IF a < b THEN a ELSE b

\* ------------------------------------------------------------- variables
VARIABLES
  ios,          \* iostate_t records, by allocation
  rwbuf_head,   \* buffer pool free list, head first
  nmalloc,      \* number of buffers malloc'ed so far
  wait_net,     \* WAIT_NET queue: fd -> sequence of requests
  wait_socket,  \* WAIT_SOCKET queue: fd -> sequence of requests
  fd_events,    \* per-fd event mask of the multiplexer
  waitset,      \* s_waitset: cookie -> watched signals
  dispatcher,   \* IOStates whose RIO endpoint is registered
  dataref,      \* IOStates whose data-endpoint reference is outstanding
  pipe,         \* kernel data endpoint of each IOState
  sock,         \* NetBackend socket of each fd
  trace,        \* per-IOState history of bytes and messages moved, and
                \* the handles of unsent replies still open (unsent) and
                \* the optval of the last GETSOCKOPT reply (optval) and the
                \* outcome of the last create_handles call (ch); for
                \* the buffer pool on its own, the buffer each holder has
                \* (held) and the free buffers in the order of their
                \* put_rwbuf calls (puts); whether a datagram was stored
                \* past the end of a buffer (overrun), the status of the pull
                \* on which a write handler synthesized CLOSE (wclosed),
                \* whether the process
                \* was aborted in a handler (aborted) and the state it
                \* was aborted in (snapshot)
  runner,       \* the batch the request runner is working through
  nextrq,       \* number of request records packed so far
  budget,       \* environment events still allowed
  fault,        \* injected failure of the next kernel or backend call
  uaf,          \* a handler has run on a freed IOState
  hw            \* handle watcher: the control channel s_ctrl, the positions
                \* of the controller and of the watcher thread, the
                \* interrupt bytes written

vars == <<ios, rwbuf_head, nmalloc, wait_net, wait_socket, fd_events, waitset,
          dispatcher, dataref, pipe, sock, trace, runner, nextrq, budget,
          fault, uaf, hw>>

St == [ios |-> ios, rwbuf_head |-> rwbuf_head, nmalloc |-> nmalloc,
       wait_net |-> wait_net, wait_socket |-> wait_socket,
       fd_events |-> fd_events, waitset |-> waitset,
       dispatcher |-> dispatcher, dataref |-> dataref, pipe |-> pipe,
       sock |-> sock, trace |-> trace, runner |-> runner, nextrq |-> nextrq,
       budget |-> budget, fault |-> fault, uaf |-> uaf, hw |-> hw]

\* The process goes on from the state its handler leaves; a process that
\* was aborted in the handler stays in the state of the abort.
Commit(t) ==
  \E v \in {t} :
  \E u \in {IF v.trace.aborted THEN v.trace.snapshot ELSE v} :
     /\ ~trace.aborted
     /\ ios' = u.ios
     /\ rwbuf_head' = u.rwbuf_head
     /\ nmalloc' = u.nmalloc
     /\ wait_net' = u.wait_net
     /\ wait_socket' = u.wait_socket
     /\ fd_events' = u.fd_events
     /\ waitset' = u.waitset
     /\ dispatcher' = u.dispatcher
     /\ dataref' = u.dataref
     /\ pipe' = u.pipe
     /\ sock' = u.sock
     /\ trace' = u.trace
     /\ runner' = u.runner
     /\ nextrq' = u.nextrq
     /\ budget' = u.budget
     /\ fault' = u.fault
     /\ uaf' = u.uaf
     /\ hw' = u.hw

\* ------------------------------------------------------------ byte runs
\* Append the run of n bytes starting at stream position p to a byte
\* sequence kept as maximal runs of consecutive positions.
AppendRun(runs, p, n) ==
  IF n = 0 THEN runs
  ELSE IF runs # <<>> /\ runs[Len(runs)][1] + runs[Len(runs)][2] = p
       THEN [runs EXCEPT ![Len(runs)] = <<@[1], @[2] + n>>]
       ELSE Append(runs, <<p, n>>)

\* The first n bytes of a stream, as runs.
Prefix(n) == IF n = 0 THEN <<>> ELSE << <<0, n>> >>

\* ----------------------------------------------------------- buffer pool
get_rwbuf(s) ==
  IF s.rwbuf_head = <<>>
  THEN [s |-> [s EXCEPT !.nmalloc = @ + 1], buf |-> s.nmalloc + 1]
  ELSE [s |-> [s EXCEPT !.rwbuf_head = Tail(@)], buf |-> Head(s.rwbuf_head)]

\* put_rwbuf that links the buffer at the tail of the free list.
put_rwbuf_tail(s, bufp) ==
  IF bufp = NULL THEN s ELSE [s EXCEPT !.rwbuf_head = @ \o <<bufp>>]

put_rwbuf(s, bufp) ==
  IF bufp = NULL THEN s ELSE [s EXCEPT !.rwbuf_head = <<bufp>> \o @]

\* ------------------------------------------------------------- wait-set
mx_waitset_remove(s, i) ==
  IF s.fault = "ws_remove"
  THEN [s |-> [s EXCEPT !.fault = "none"], r |-> ERR_IO]
  ELSE IF i \notin DOMAIN s.waitset
  THEN [s |-> s, r |-> "ERR_NOT_FOUND"]
  ELSE [s |-> [s EXCEPT !.waitset =
                 [j \in (DOMAIN s.waitset) \ {i} |-> s.waitset[j]]],
        r |-> NO_ERROR]

mx_waitset_add(s, i, sigs) ==
  IF s.fault = "ws_add"
  THEN [s |-> [s EXCEPT !.fault = "none"], r |-> ERR_IO]
  ELSE IF i \in DOMAIN s.waitset
  THEN [s |-> s, r |-> "ERR_ALREADY_EXISTS"]
  ELSE [s |-> [s EXCEPT !.waitset = (i :> sigs) @@ s.waitset], r |-> NO_ERROR]

socket_signals_change(s, i, old_sigs, new_sigs) ==
  LET added(ad) ==
        IF ad.r # NO_ERROR THEN ad.s
        ELSE [ad.s EXCEPT !.ios[i].watching_signals = new_sigs]
      removed(rm) ==
        IF rm.r # NO_ERROR THEN rm.s
        ELSE added(IF new_sigs # {} THEN mx_waitset_add(rm.s, i, new_sigs)
                   ELSE [s |-> rm.s, r |-> NO_ERROR])
  IN removed(IF old_sigs # {} THEN mx_waitset_remove(s, i)
             ELSE [s |-> s, r |-> NO_ERROR])

socket_signals_set(s, i, sigs) ==
  IF sigs \subseteq s.ios[i].watching_signals THEN s
  ELSE socket_signals_change(s, i, s.ios[i].watching_signals,
                             s.ios[i].watching_signals \cup sigs)

socket_signals_clear(s, i, sigs) ==
  IF s.ios[i].watching_signals \cap sigs = {} THEN s
  ELSE socket_signals_change(s, i, s.ios[i].watching_signals,
                             s.ios[i].watching_signals \ sigs)

\* ------------------------------------------------- request records, queues
\* msg->data and msg->datalen; einval tells whether the C library's strtol
\* sets errno to EINVAL when it finds no digits (it may or may not).
\* hcount counts the handles that came with the message and ioctl is
\* arg2.op.
NoData == [data |-> <<>>, datalen |-> 0, addr |-> "", einval |-> FALSE,
           level |-> "", optname |-> "", hcount |-> 0, ioctl |-> ""]

\* request_pack(op, rh, msg, ios); the pseudo-ops carry no message.
request_pack(s, op, i) ==
  [s |-> [s EXCEPT !.nextrq = @ + 1],
   rq |-> [id |-> s.nextrq + 1, op |-> op, ios |-> i, msg |-> NoData]]

\* wait_queue_put that puts the request at the head of the queue.
wait_queue_put_front(s, q, fd, rq) ==
  IF q = "WAIT_NET" THEN [s EXCEPT !.wait_net[fd] = <<rq>> \o @]
  ELSE [s EXCEPT !.wait_socket[fd] = <<rq>> \o @]

wait_queue_put(s, q, fd, rq) ==
  IF q = "WAIT_NET" THEN [s EXCEPT !.wait_net[fd] = Append(@, rq)]
  ELSE [s EXCEPT !.wait_socket[fd] = Append(@, rq)]

\* mx_channel_write of a reply to the RIO channel with the handle array
\* `handles` (the valid handles in it) and the handle count m.hcount: the
\* kernel refuses a message that counts a handle that is not valid, and a
\* failed write leaves the reply's handles with the caller.
rio_reply_write(s, m, handles) ==
  IF m.hcount > Cardinality(handles)
  THEN [s |-> s, r |-> "ERR_BAD_HANDLE"]
  ELSE IF s.fault = "reply_write"
  THEN [s |-> [s EXCEPT !.fault = "none",
                        !.trace.unsent = @ + Cardinality(handles)],
        r |-> ERR_PEER_CLOSED]
  ELSE [s |-> [s EXCEPT !.trace.replies = Append(@, m)], r |-> NO_ERROR]

\* discard_handles closes count handles of a reply that was not sent.
discard_handles(s, count) == [s EXCEPT !.trace.unsent = @ - count]

\* request_free releases the request record; freed holds the records released
\* so far and refreed those released more than once.
request_free(s, rq) ==
  [s EXCEPT !.trace.freed = @ \cup {rq.id},
            !.trace.refreed = @ \cup ({rq.id} \cap s.trace.freed)]

wait_queue_discard(s, q, fd) ==
  IF q = "WAIT_NET" THEN [s EXCEPT !.wait_net[fd] = <<>>]
  ELSE [s EXCEPT !.wait_socket[fd] = <<>>]

\* wait_queue_swap moves the whole queue of fd into the caller's local queue.
wait_queue_swap(s, q, fd) ==
  IF q = "WAIT_NET"
  THEN [s |-> [s EXCEPT !.wait_net[fd] = <<>>], q |-> s.wait_net[fd]]
  ELSE [s |-> [s EXCEPT !.wait_socket[fd] = <<>>], q |-> s.wait_socket[fd]]

fd_event_set(s, fd, ev) == [s EXCEPT !.fd_events[fd] = @ \cup {ev}]

fd_event_clear(s, fd, evs) == [s EXCEPT !.fd_events[fd] = @ \ evs]

\* ------------------------------------------------------------- iostate_t
NoMsg == [id |-> 0, addrlen |-> 0, len |-> 0, room |-> 0, nread |-> 0,
          past |-> "none"]

UnusedIos ==
  [state |-> "unused", handle_type |-> HANDLE_TYPE_NONE, sockfd |-> -1,
   data_h |-> FALSE, rbuf |-> NULL, rlen |-> 0, roff |-> 0, rbase |-> 0,
   wbuf |-> NULL, wlen |-> 0, woff |-> 0, wbase |-> 0,
   last_errno |-> "", watching_signals |-> {}, refcount |-> 0]

FreeSlot(s) == CHOOSE i \in IosIds :
  /\ s.ios[i].state = "unused"
  /\ \A j \in IosIds : s.ios[j].state = "unused" => i <= j

\* calloc'ed record: sockfd -1, one reference for the caller.
iostate_alloc(s) ==
  LET calloc(i) ==
        [s |-> [s EXCEPT !.ios[i] = [UnusedIos EXCEPT !.state = "live",
                                                      !.refcount = 1]],
         ios |-> i]
  IN calloc(FreeSlot(s))

iostate_acquire(s, i) == [s EXCEPT !.ios[i].refcount = @ + 1]

\* Dropping the last reference returns both pooled buffers, closes the data
\* endpoint (which takes its entry out of the wait-set) and frees the record.
iostate_release(s, i) ==
  IF s.ios[i].refcount - 1 # 0
  THEN [s EXCEPT !.ios[i].refcount = @ - 1]
  ELSE LET free(s1) ==
             [s1 EXCEPT !.ios[i].refcount = 0,
                        !.ios[i].state = "freed",
                        !.ios[i].data_h = FALSE,
                        !.waitset = [j \in (DOMAIN s1.waitset) \ {i} |->
                                       s1.waitset[j]]]
       IN free(put_rwbuf(put_rwbuf(s, s.ios[i].rbuf), s.ios[i].wbuf))

\* ------------------------------------------------- kernel data endpoints
\* Byte pipe (stream) or message channel (datagram) between the server end
\* ios->data_h and the client.
NewPipe ==
  [c2s |-> 0,            \* bytes the client wrote, not yet pulled
   pulled |-> 0,         \* bytes pulled by the server so far
   s2c |-> 0,            \* bytes the server wrote, not yet drained
   msgs |-> <<>>,        \* messages the client wrote, not yet pulled
   peer_closed |-> FALSE,
   quiet |-> FALSE,      \* the closed peer is reported by signal only
   hc |-> FALSE,         \* client raised MXSIO_SIGNAL_HALFCLOSED
   usig |-> {},          \* user signals the server raised on the peer
   marker |-> 0,         \* half-close markers the server wrote
   out |-> <<>>,         \* network-stream bytes the server wrote, as runs
   chan_in |-> <<>>,     \* messages the server read from the channel
   chan_out |-> <<>>]    \* messages the server wrote to the channel

\* Signals currently satisfied on ios->data_h.
Satisfied(s, i) ==
  LET p == s.pipe[i]
  IN (IF p.c2s > 0 \/ p.msgs # <<>> THEN {READABLE} ELSE {})
     \cup (IF ~p.peer_closed /\ p.s2c < PipeCap THEN {WRITABLE} ELSE {})
     \cup (IF p.peer_closed THEN {PEER_CLOSED} ELSE {})
     \cup (IF p.hc THEN {HALFCLOSED} ELSE {})

\* mx_socket_write(data_h, 0, buf, len) with buf holding network-stream bytes
\* from pos on: short when the pipe is nearly full.
mx_socket_write(s, i, pos, len) ==
  LET p == s.pipe[i]
  IN IF ~s.ios[i].data_h THEN [s |-> s, r |-> "ERR_BAD_HANDLE", n |-> 0]
     ELSE IF p.peer_closed THEN [s |-> s, r |-> ERR_PEER_CLOSED, n |-> 0]
     ELSE IF p.s2c >= PipeCap THEN [s |-> s, r |-> ERR_SHOULD_WAIT, n |-> 0]
     ELSE LET n == Min(len, PipeCap - p.s2c)
          IN [s |-> [s EXCEPT !.pipe[i].s2c = @ + n,
                              !.pipe[i].out = AppendRun(@, pos, n)],
              r |-> NO_ERROR, n |-> n]

\* mx_socket_write(data_h, MX_SOCKET_HALF_CLOSE, NULL, 0)
mx_socket_half_close(s, i) ==
  IF s.fault = "half_close"
  THEN [s |-> [s EXCEPT !.fault = "none"], r |-> "ERR_BAD_STATE"]
  ELSE IF ~s.ios[i].data_h THEN [s |-> s, r |-> "ERR_BAD_HANDLE"]
  ELSE IF s.pipe[i].peer_closed THEN [s |-> s, r |-> ERR_PEER_CLOSED]
  ELSE [s |-> [s EXCEPT !.pipe[i].marker = @ + 1], r |-> NO_ERROR]

\* mx_socket_read(data_h, 0, buf, len): base is the client-stream position of
\* the first byte stored in buf. An empty pipe whose peer is closed answers
\* ERR_PEER_CLOSED, or ERR_SHOULD_WAIT where the kernel reports the closed
\* peer by signal only; the write handler provides for both.
mx_socket_read(s, i, len) ==
  LET p == s.pipe[i]
  IN IF ~s.ios[i].data_h
     THEN [s |-> s, r |-> "ERR_BAD_HANDLE", n |-> 0, base |-> 0]
     ELSE IF p.c2s > 0
     THEN LET n == Min(len, p.c2s)
          IN [s |-> [s EXCEPT !.pipe[i].c2s = @ - n, !.pipe[i].pulled = @ + n],
              r |-> NO_ERROR, n |-> n, base |-> p.pulled]
     ELSE IF p.peer_closed /\ ~p.quiet
     THEN [s |-> s, r |-> ERR_PEER_CLOSED, n |-> 0, base |-> 0]
     ELSE [s |-> s, r |-> ERR_SHOULD_WAIT, n |-> 0, base |-> 0]

\* mx_channel_read(data_h, 0, bytes, handles, num_bytes, ...): one whole
\* message; a message longer than num_bytes stays in the channel.
mx_channel_read(s, i, num_bytes) ==
  LET p == s.pipe[i]
  IN IF ~s.ios[i].data_h THEN [s |-> s, r |-> "ERR_BAD_HANDLE", m |-> NoMsg]
     ELSE IF p.msgs # <<>>
     THEN IF MXIO_SOCKET_MSG_HEADER_SIZE + Head(p.msgs).len > num_bytes
          THEN [s |-> s, r |-> "ERR_BUFFER_TOO_SMALL", m |-> NoMsg]
          ELSE [s |-> [s EXCEPT !.pipe[i].msgs = Tail(@),
                                !.pipe[i].chan_in = Append(@, Head(p.msgs))],
                r |-> NO_ERROR, m |-> Head(p.msgs)]
     ELSE IF p.peer_closed THEN [s |-> s, r |-> ERR_PEER_CLOSED, m |-> NoMsg]
     ELSE [s |-> s, r |-> ERR_SHOULD_WAIT, m |-> NoMsg]

\* mx_channel_write(data_h, ...): never ERR_SHOULD_WAIT.
mx_channel_write(s, i, m) ==
  IF ~s.ios[i].data_h THEN [s |-> s, r |-> "ERR_BAD_HANDLE"]
  ELSE IF s.pipe[i].peer_closed THEN [s |-> s, r |-> ERR_PEER_CLOSED]
  ELSE [s |-> [s EXCEPT !.pipe[i].chan_out = Append(@, m)], r |-> NO_ERROR]

mx_object_signal_peer(s, i, clear, set) ==
  IF ~s.ios[i].data_h \/ s.pipe[i].peer_closed THEN s
  ELSE [s EXCEPT !.pipe[i].usig = (@ \ clear) \cup set]

\* ------------------------------------------------------------ NetBackend
ClosedSock ==
  [open |-> FALSE, type |-> "", conn |-> "idle", so_error |-> "",
   backlog |-> 0,        \* connections waiting to be accepted
   avail |-> 0,          \* inbound bytes not yet read
   rd |-> 0,             \* bytes returned by net_read so far
   eof |-> FALSE,        \* the network peer has closed
   err |-> "",           \* pending hard error
   space |-> 0,          \* room in the send buffer
   out |-> <<>>,         \* client-stream bytes accepted by net_write, as runs
   dgrams |-> <<>>,      \* inbound datagrams not yet received
   recvd |-> <<>>,       \* datagrams returned by net_recvfrom
   sent |-> <<>>,        \* net_sendto calls
   shut |-> 0,           \* net_shutdown(SHUT_WR) calls
   closes |-> 0,         \* net_close calls
   gen |-> 0]            \* sockets the descriptor has stood for so far

SockOpen(s, fd) == fd \in Fds /\ s.sock[fd].open

\* The backend hands out the lowest descriptor that is not open; a closed
\* descriptor is handed out again with a fresh socket behind it.
FreeFd(s) == CHOOSE f \in Fds :
  /\ ~s.sock[f].open
  /\ \A g \in Fds : ~s.sock[g].open => f <= g

\* Descriptor fd stands for the new socket k from now on; the history kept
\* for what fd was before ends here.
handed_out(s, fd, k) ==
  [s EXCEPT !.sock[fd] = [k EXCEPT !.gen = s.sock[fd].gen + 1],
            !.trace.fd = [j \in IosIds |-> IF @[j] = fd THEN -1 ELSE @[j]]]

net_socket(s, type) ==
  IF s.fault = "net_socket"
  THEN [s |-> [s EXCEPT !.fault = "none"], fd |-> -1, errno |-> "ENOBUFS"]
  ELSE LET fd == FreeFd(s)
       IN [s |-> handed_out(s, fd, [ClosedSock EXCEPT !.open = TRUE,
                                                      !.type = type,
                                                      !.space = SendCap]),
           fd |-> fd, errno |-> ""]

net_ioctl(s, fd) ==
  IF s.fault = "net_ioctl"
  THEN [s |-> [s EXCEPT !.fault = "none"], errno |-> EINVAL]
  ELSE [s |-> s, errno |-> IF SockOpen(s, fd) THEN "" ELSE EBADF]

net_close(s, fd) ==
  IF fd \in Fds
  THEN [s EXCEPT !.sock[fd].open = FALSE, !.sock[fd].closes = @ + 1]
  ELSE s

net_shutdown(s, fd) ==
  IF SockOpen(s, fd) THEN [s EXCEPT !.sock[fd].shut = @ + 1] ELSE s

\* The address decides: "local" connects at once, "remote" is in progress
\* until the network answers, anything else is refused by the backend.
net_connect(s, fd, addr) ==
  IF ~SockOpen(s, fd) THEN [s |-> s, errno |-> EBADF]
  ELSE IF s.sock[fd].conn # "idle" THEN [s |-> s, errno |-> EISCONN]
  ELSE IF addr = "local"
  THEN [s |-> [s EXCEPT !.sock[fd].conn = "connected"], errno |-> ""]
  ELSE IF addr = "remote" /\ s.sock[fd].type = "SOCK_STREAM"
  THEN [s |-> [s EXCEPT !.sock[fd].conn = "connecting"], errno |-> EINPROGRESS]
  ELSE [s |-> s, errno |-> EINVAL]

\* A datagram socket that is already bound is bound again (the backend's
\* udp_bind rebinds); a stream socket is bound once.
net_bind(s, fd, addr) ==
  IF ~SockOpen(s, fd) THEN [s |-> s, errno |-> EBADF]
  ELSE IF addr # "local" THEN [s |-> s, errno |-> EINVAL]
  ELSE IF s.sock[fd].type = "SOCK_DGRAM" /\ s.sock[fd].conn = "bound"
  THEN [s |-> s, errno |-> ""]
  ELSE IF s.sock[fd].conn # "idle" THEN [s |-> s, errno |-> EINVAL]
  ELSE [s |-> [s EXCEPT !.sock[fd].conn = "bound"], errno |-> ""]

\* net_listen(fd, backlog): a stream socket that is not connected starts
\* listening.
net_listen(s, fd) ==
  IF ~SockOpen(s, fd) THEN [s |-> s, errno |-> EBADF]
  ELSE IF s.sock[fd].type # "SOCK_STREAM" THEN [s |-> s, errno |-> "EOPNOTSUPP"]
  ELSE IF s.sock[fd].conn \notin {"idle", "listening"}
  THEN [s |-> s, errno |-> EINVAL]
  ELSE [s |-> [s EXCEPT !.sock[fd].conn = "listening"], errno |-> ""]

\* net_accept(fd, NULL, NULL): the descriptor of the oldest waiting
\* connection, or -1 and errno; EWOULDBLOCK when none is waiting.
net_accept(s, fd) ==
  IF ~SockOpen(s, fd) THEN [s |-> s, fd |-> -1, errno |-> EBADF]
  ELSE IF s.sock[fd].conn # "listening"
  THEN [s |-> s, fd |-> -1, errno |-> EINVAL]
  ELSE IF s.sock[fd].backlog = 0
  THEN [s |-> s, fd |-> -1, errno |-> EWOULDBLOCK]
  ELSE LET new == FreeFd(s)
       IN [s |-> handed_out([s EXCEPT !.sock[fd].backlog = @ - 1], new,
                            [ClosedSock EXCEPT !.open = TRUE,
                                               !.type = "SOCK_STREAM",
                                               !.conn = "connected",
                                               !.space = SendCap]),
           fd |-> new, errno |-> ""]

\* net_getsockopt(fd, level, optname, ...): SO_TYPE and SO_ERROR of SOL_SOCKET
\* are the options the backend knows here.
net_getsockopt(s, fd, level, optname) ==
  IF ~SockOpen(s, fd) THEN [val |-> "", errno |-> EBADF]
  ELSE IF level = SOL_SOCKET /\ optname = SO_ERROR
  THEN [val |-> s.sock[fd].so_error, errno |-> ""]
  ELSE IF level = SOL_SOCKET /\ optname = SO_TYPE
  THEN [val |-> s.sock[fd].type, errno |-> ""]
  ELSE [val |-> "", errno |-> "ENOPROTOOPT"]

\* net_setsockopt(fd, level, optname, ...): the options of SOL_SOCKET can be
\* set on an open socket.
net_setsockopt(s, fd, level, optname) ==
  IF ~SockOpen(s, fd) THEN [errno |-> EBADF]
  ELSE IF level = SOL_SOCKET THEN [errno |-> ""]
  ELSE [errno |-> "ENOPROTOOPT"]

\* net_getsockname(fd, ...): every open socket has a local name.
net_getsockname(s, fd) ==
  IF ~SockOpen(s, fd) THEN [errno |-> EBADF] ELSE [errno |-> ""]

\* net_getpeername(fd, ...): only a connected socket has a peer.
net_getpeername(s, fd) ==
  IF ~SockOpen(s, fd) THEN [errno |-> EBADF]
  ELSE IF s.sock[fd].conn # "connected" THEN [errno |-> "ENOTCONN"]
  ELSE [errno |-> ""]

\* net_getaddrinfo(node, ...): "local" resolves, "remote" cannot be looked
\* up for want of memory, no other name is known.
net_getaddrinfo(node) ==
  IF node = "local" THEN [ret |-> "0", errno |-> ""]
  ELSE IF node = "remote" THEN [ret |-> "EAI_SYSTEM", errno |-> "ENOMEM"]
  ELSE [ret |-> "EAI_NONAME", errno |-> ""]

\* The interface calls of the backend (net_get_if_info, net_set_if_addr_v4,
\* ...): the interface "local" exists, no other does.
net_if_call(ifname) ==
  IF ifname = "local" THEN [errno |-> ""] ELSE [errno |-> "ENODEV"]

\* The failures of the backend calls that name no interface
\* (net_get_if_info, net_get_dns_server_v4, net_set_dns_server_v4), and the
\* errno each leaves.
GlobalFaults == {"global_ENOMEM", "global_ENODEV"}

net_global_call(s) ==
  IF s.fault \in GlobalFaults
  THEN [s |-> [s EXCEPT !.fault = "none"],
        errno |-> IF s.fault = "global_ENOMEM" THEN "ENOMEM" ELSE "ENODEV"]
  ELSE [s |-> s, errno |-> ""]

net_getsockopt_so_error(s, fd) ==
  IF ~SockOpen(s, fd) THEN [val |-> "", errno |-> EBADF]
  ELSE [val |-> s.sock[fd].so_error, errno |-> ""]

\* net_read(fd, buf, len): n > 0 bytes, 0 at end of stream, or -1 and errno.
\* base is the stream position of the first byte stored in buf.
net_read(s, fd, len) ==
  IF ~SockOpen(s, fd) THEN [s |-> s, n |-> -1, errno |-> EBADF, base |-> 0]
  ELSE LET k == s.sock[fd]
       IN IF k.avail > 0
          THEN LET n == Min(len, k.avail)
               IN [s |-> [s EXCEPT !.sock[fd].avail = @ - n,
                                   !.sock[fd].rd = @ + n],
                   n |-> n, errno |-> "", base |-> k.rd]
          ELSE IF k.err # ""
          THEN [s |-> [s EXCEPT !.sock[fd].err = ""], n |-> -1,
                errno |-> k.err, base |-> 0]
          ELSE IF k.eof THEN [s |-> s, n |-> 0, errno |-> "", base |-> 0]
          ELSE [s |-> s, n |-> -1, errno |-> EWOULDBLOCK, base |-> 0]

\* net_write(fd, buf, len) with buf holding client-stream bytes from pos on.
net_write(s, fd, pos, len) ==
  IF ~SockOpen(s, fd) THEN [s |-> s, n |-> -1, errno |-> EBADF]
  ELSE LET k == s.sock[fd]
       IN IF k.err # ""
          THEN [s |-> [s EXCEPT !.sock[fd].err = ""], n |-> -1, errno |-> k.err]
          ELSE IF k.space = 0 THEN [s |-> s, n |-> -1, errno |-> EWOULDBLOCK]
          ELSE LET n == Min(len, k.space)
               IN [s |-> [s EXCEPT !.sock[fd].space = @ - n,
                                   !.sock[fd].out = AppendRun(@, pos, n)],
                   n |-> n, errno |-> ""]

\* net_recvfrom(fd, buf, len, ...): one whole datagram with its source
\* address; what is longer than len is cut off.
net_recvfrom(s, fd, len) ==
  IF ~SockOpen(s, fd) THEN [s |-> s, n |-> -1, errno |-> EBADF, d |-> NoMsg]
  ELSE LET k == s.sock[fd]
       IN IF k.dgrams # <<>>
          THEN [s |-> [s EXCEPT !.sock[fd].dgrams = Tail(@),
                                !.sock[fd].recvd = Append(@, Head(k.dgrams))],
                n |-> Min(Head(k.dgrams).len, len), errno |-> "",
                d |-> [Head(k.dgrams) EXCEPT !.len = Min(@, len)]]
          ELSE IF k.err # ""
          THEN [s |-> [s EXCEPT !.sock[fd].err = ""], n |-> -1,
                errno |-> k.err, d |-> NoMsg]
          ELSE [s |-> s, n |-> -1, errno |-> EWOULDBLOCK, d |-> NoMsg]

\* net_sendto(fd, payload, len, 0, addr, addrlen)
net_sendto(s, fd, m) ==
  IF ~SockOpen(s, fd) THEN [s |-> s, errno |-> EBADF]
  ELSE [s |-> [s EXCEPT !.sock[fd].sent = Append(@, m)], errno |-> ""]

errno_to_status(errno_) ==
  CASE errno_ = "EACCES" -> "ERR_ACCESS_DENIED"
    [] errno_ = EBADF -> "ERR_BAD_HANDLE"
    [] errno_ = EINPROGRESS -> ERR_SHOULD_WAIT
    [] errno_ = EINVAL -> ERR_INVALID_ARGS
    [] errno_ = "EIO" -> ERR_IO
    [] errno_ = "ENOBUFS" -> "ERR_NO_RESOURCES"
    [] errno_ = "ENOMEM" -> "ERR_NO_MEMORY"
    [] errno_ = EWOULDBLOCK -> ERR_SHOULD_WAIT
    [] OTHER -> ERR_IO

\* ------------------------------------------------------------- scheduling
RECURSIVE handle_request(_, _, _, _)
RECURSIVE handle_request_close(_, _, _)
RECURSIVE write_close(_, _, _, _)
RECURSIVE do_write_stream(_, _, _, _)
RECURSIVE do_write_dgram(_, _, _, _)
RECURSIVE do_write(_, _, _, _)
RECURSIVE do_funcs(_, _, _, _)

handle_request_close(s, i, signals) ==
  LET p == request_pack(s, "CLOSE", i)
  IN handle_request(p.s, p.rq, {}, signals)

handle_request_halfclose(s, i, signals) ==
  LET p == request_pack(s, "HALFCLOSE", i)
  IN handle_request(p.s, p.rq, {}, signals)

schedule_sigconn_r(s, i) ==
  LET put(p) == wait_queue_put(p.s, "WAIT_NET", s.ios[i].sockfd, p.rq)
  IN put(request_pack(fd_event_set(s, s.ios[i].sockfd, EVENT_READ),
                      "SIGCONN_R", i))

schedule_sigconn_w(s, i) ==
  LET put(p) == wait_queue_put(p.s, "WAIT_NET", s.ios[i].sockfd, p.rq)
  IN put(request_pack(fd_event_set(s, s.ios[i].sockfd, EVENT_WRITE),
                      "SIGCONN_W", i))

schedule_r(s, i) ==
  LET put(p) == wait_queue_put(p.s, "WAIT_NET", s.ios[i].sockfd, p.rq)
  IN put(request_pack(fd_event_set(s, s.ios[i].sockfd, EVENT_READ),
                      "READ", i))

schedule_w(s, i) ==
  LET put(p) == wait_queue_put(p.s, "WAIT_SOCKET", s.ios[i].sockfd, p.rq)
  IN put(request_pack(socket_signals_set(s, i, {READABLE}), "WRITE", i))

schedule_rw(s, i) ==
  schedule_w(schedule_r(IF s.ios[i].handle_type = HANDLE_TYPE_STREAM
                        THEN mx_object_signal_peer(s, i, {}, {"CONNECTED"})
                        ELSE s, i), i)

\* ---------------------------------------------------------- create_handles
\* The handles create_handles makes: the two ends of the RIO channel and,
\* for a stream or a datagram socket, the two ends of the data endpoint.
RioHandles == {"rio_h[0]", "rio_h[1]"}

DataHandles(s, i) ==
  IF s.ios[i].handle_type # HANDLE_TYPE_NONE THEN {"data_h[0]", "data_h[1]"}
  ELSE {}

\* What a create_handles call leaves behind, kept in trace.ch: the status, the
\* handles it created that are still open, the handles stored through
\* peer_rio_h and peer_data_h, *hcount, the references it took and
\* ios->data_h.
create_handles_return(s, s9, i, r, hc, open, peer) ==
  [s |-> [s9 EXCEPT !.trace.ch =
            [ios |-> i, r |-> r, handle_type |-> s.ios[i].handle_type,
             open |-> open, peer |-> peer, hcount |-> hc,
             acquired |-> s9.ios[i].refcount - s.ios[i].refcount,
             data_h |-> s9.ios[i].data_h]],
   r |-> r, hcount |-> hc, peer |-> peer]

\* create_handles whose fail_watcher_add path closes only the RIO channel.
create_handles_leak(s, i) ==
  IF s.fault = "channel_create"
  THEN create_handles_return(s, [s EXCEPT !.fault = "none"], i,
                             "ERR_NO_MEMORY", 0, {}, {})
  ELSE IF s.fault = "data_create" /\ s.ios[i].handle_type # HANDLE_TYPE_NONE
  THEN create_handles_return(s, [s EXCEPT !.fault = "none"], i,
                             "ERR_NO_MEMORY", 0, RioHandles \ RioHandles, {})
  ELSE
    LET hasdata == s.ios[i].handle_type # HANDLE_TYPE_NONE
        hc == IF hasdata THEN 2 ELSE 1
        open == RioHandles \cup DataHandles(s, i)
        registered(s2) ==
          create_handles_return(
            s, IF s2.ios[i].data_h
               THEN [iostate_acquire(s2, i) EXCEPT !.dataref = @ \cup {i}]
               ELSE s2,
            i, NO_ERROR, hc, open,
            {"rio_h[1]"} \cup (DataHandles(s, i) \cap {"data_h[1]"}))
        created(s1) ==
          IF s1.fault = "dispatcher_add"
          THEN create_handles_return(
                 s, [s1 EXCEPT !.fault = "none", !.ios[i].data_h = FALSE],
                 i, "ERR_NO_MEMORY", hc, open \ RioHandles, {})
          ELSE registered([s1 EXCEPT !.dispatcher = @ \cup {i}])
    IN created([s EXCEPT !.ios[i].data_h = hasdata, !.pipe[i] = NewPipe])

\* Returns the status and *hcount, which is written before dispatcher_add is
\* called and is left as it was when a channel or socket cannot be created.
create_handles(s, i) ==
  IF s.fault = "channel_create"
  THEN create_handles_return(s, [s EXCEPT !.fault = "none"], i,
                             "ERR_NO_MEMORY", 0, {}, {})
  ELSE IF s.fault = "data_create" /\ s.ios[i].handle_type # HANDLE_TYPE_NONE
  THEN create_handles_return(s, [s EXCEPT !.fault = "none"], i,
                             "ERR_NO_MEMORY", 0, RioHandles \ RioHandles, {})
  ELSE
    LET hasdata == s.ios[i].handle_type # HANDLE_TYPE_NONE
        hc == IF hasdata THEN 2 ELSE 1
        open == RioHandles \cup DataHandles(s, i)
        registered(s2) ==
          create_handles_return(
            s, IF s2.ios[i].data_h
               THEN [iostate_acquire(s2, i) EXCEPT !.dataref = @ \cup {i}]
               ELSE s2,
            i, NO_ERROR, hc, open,
            {"rio_h[1]"} \cup (DataHandles(s, i) \cap {"data_h[1]"}))
        created(s1) ==
          IF s1.fault = "dispatcher_add"
          THEN create_handles_return(
                 s, [s1 EXCEPT !.fault = "none", !.ios[i].data_h = FALSE],
                 i, "ERR_NO_MEMORY", hc,
                 (open \ DataHandles(s, i)) \ RioHandles, {})
          ELSE registered([s1 EXCEPT !.dispatcher = @ \cup {i}])
    IN created([s EXCEPT !.ios[i].data_h = hasdata, !.pipe[i] = NewPipe])

\* ------------------------------------------------------------- OPEN paths
\* A path is the sequence of the characters before the terminating '\0'.
CharAt(path, k) == IF k \in 1..Len(path) THEN path[k] ELSE NUL

\* isspace() in the "C" locale.
IsSpace == {" ", "\t", "\n", "\f", "\r", ""}

RECURSIVE skip_space(_, _)
skip_space(path, k) ==
  IF CharAt(path, k) \in IsSpace THEN skip_space(path, k + 1) ELSE k

\* A long is 64 bits wide and is kept as four 16-bit limbs, the least
\* significant first.
Limb == 65536

LongZero == <<0, 0, 0, 0>>

\* v * 10 + d on 64 bits; carry is what does not fit.
long_mul10_add(v, d) ==
  LET a0 == v[1] * 10 + d
      a1 == v[2] * 10 + a0 \div Limb
      a2 == v[3] * 10 + a1 \div Limb
      a3 == v[4] * 10 + a2 \div Limb
  IN [val |-> <<a0 % Limb, a1 % Limb, a2 % Limb, a3 % Limb>>,
      carry |-> a3 \div Limb]

\* The digits from position k on: their value as an unsigned 64-bit
\* magnitude, and over when the magnitude does not fit 64 bits.
RECURSIVE scan_digits(_, _, _)
scan_digits(path, k, acc) ==
  IF CharAt(path, k) \in DOMAIN DigitVal
  THEN LET m == long_mul10_add(acc.val, DigitVal[CharAt(path, k)])
       IN scan_digits(path, k + 1,
                      [val |-> m.val, over |-> acc.over \/ m.carry > 0])
  ELSE [end |-> k, val |-> acc.val, over |-> acc.over]

\* The conversion of a long to int keeps the low 32 bits (two's complement).
long_to_int(neg, v) ==
  LET low == IF v[2] >= Limb \div 2 THEN (v[2] - Limb) * Limb + v[1]
             ELSE v[2] * Limb + v[1]
  IN IF ~neg \/ (v[2] = Limb \div 2 /\ v[1] = 0) THEN low ELSE 0 - low

\* (int)strtol(path + k, &ptr, 10): white space, an optional sign, then
\* digits. Without a digit nothing is converted: 0 is returned and ptr is
\* path + k. A value outside LONG_MIN..LONG_MAX gives LONG_MAX or LONG_MIN
\* and ERANGE.
strtol(path, k, errno_, einval) ==
  LET j == skip_space(path, k)
      neg == CharAt(path, j) = "-"
      d0 == IF CharAt(path, j) \in {"+", "-"} THEN j + 1 ELSE j
      sc == scan_digits(path, d0, [val |-> LongZero, over |-> FALSE])
      erange ==
        \/ sc.over
        \/ sc.val[4] > Limb \div 2
        \/ sc.val[4] = Limb \div 2
           /\ (~neg \/ sc.val[1] + sc.val[2] + sc.val[3] > 0)
      maxlong == <<Limb - 1, Limb - 1, Limb - 1, Limb \div 2 - 1>>
      minlong == <<0, 0, 0, Limb \div 2>>
  IN IF sc.end = d0
     THEN [val |-> 0, end |-> k, errno |-> IF einval THEN EINVAL ELSE errno_]
     ELSE IF erange
     THEN [val |-> long_to_int(neg, IF neg THEN minlong ELSE maxlong),
           end |-> sc.end, errno |-> ERANGE]
     ELSE [val |-> long_to_int(neg, sc.val), end |-> sc.end, errno |-> errno_]

parse_socket_args(path, k, einval) ==
  LET bad == [r |-> ERR_INVALID_ARGS, domain |-> 0, type |-> 0,
              protocol |-> 0]
      third(d, t, p) ==
        IF p.errno # "" THEN bad
        ELSE IF CharAt(path, p.end) # NUL THEN bad
        ELSE [r |-> NO_ERROR, domain |-> d.val, type |-> t.val,
              protocol |-> p.val]
      second(d, t) ==
        IF t.errno # "" THEN bad
        ELSE IF CharAt(path, t.end) # "/" THEN bad
        ELSE third(d, t, strtol(path, t.end + 1, t.errno, einval))
      first(d) ==
        IF d.errno # "" THEN bad
        ELSE IF CharAt(path, d.end) # "/" THEN bad
        ELSE second(d, strtol(path, d.end + 1, d.errno, einval))
  IN first(strtol(path, k, "", einval))

\* match_subdir that does not look at the character after the name.
match_subdir_prefix(path, name) ==
  IF Len(path) >= Len(name) /\ SubSeq(path, 1, Len(name)) = name
  THEN IF CharAt(path, Len(name) + 1) = "/" THEN Len(name) + 2
       ELSE Len(name) + 1
  ELSE NULL

\* The position after name (and its '/'), or NULL when path does not start
\* with the directory name.
match_subdir(path, name) ==
  IF Len(path) >= Len(name) /\ SubSeq(path, 1, Len(name)) = name
  THEN IF CharAt(path, Len(name) + 1) = NUL THEN Len(name) + 1
       ELSE IF CharAt(path, Len(name) + 1) = "/" THEN Len(name) + 2
       ELSE NULL
  ELSE NULL

\* path[msg->datalen] = '\0'
PathOf(msg) == SubSeq(msg.data, 1, Min(msg.datalen, Len(msg.data)))

\* ------------------------------------------------------------------- OPEN
do_none(s) ==
  LET handles(c, i) ==
        IF c.r # NO_ERROR
        THEN [s |-> iostate_release(c.s, i), r |-> c.r, hcount |-> c.hcount,
              peer |-> c.peer]
        ELSE [s |-> c.s, r |-> NO_ERROR, hcount |-> c.hcount,
              peer |-> c.peer]
      alloc(a) == handles(create_handles(a.s, a.ios), a.ios)
  IN alloc(iostate_alloc(s))

\* do_socket from iostate_alloc on, for a supported socket type.
socket_create(s, type) ==
    LET ht == IF type = SOCK_STREAM THEN HANDLE_TYPE_STREAM
              ELSE HANDLE_TYPE_DGRAM
        armed(s4, i, c) ==
          [s |-> IF ht = HANDLE_TYPE_DGRAM THEN schedule_w(s4, i) ELSE s4,
           r |-> NO_ERROR, hcount |-> c.hcount, peer |-> c.peer]
        handles(c, i, fd) ==
          IF c.r # NO_ERROR
          THEN [s |-> iostate_release(c.s, i), r |-> c.r, hcount |-> c.hcount,
              peer |-> c.peer]
          ELSE armed(socket_signals_set(fd_event_set(c.s, fd, EVENT_EXCEPT),
                                        i, {PEER_CLOSED, HALFCLOSED}),
                     i, c)
        nonblock(nb, i, fd) ==
          IF nb.errno # ""
          THEN [s |-> iostate_release(
                        [nb.s EXCEPT !.ios[i].last_errno = nb.errno], i),
                r |-> errno_to_status(nb.errno), hcount |-> 0, peer |-> {}]
          ELSE handles(create_handles(
                         [nb.s EXCEPT !.ios[i].last_errno = nb.errno], i),
                       i, fd)
        opened(s1, i, fd, errno_) ==
          IF errno_ # ""
          THEN [s |-> s1, r |-> errno_to_status(errno_),
                hcount |-> 0, peer |-> {}]
          ELSE nonblock(net_ioctl(s1, fd), i, fd)
        socket(k, i) ==
          opened([k.s EXCEPT !.ios[i].sockfd = k.fd,
                             !.ios[i].last_errno = k.errno,
                             !.trace.fd[i] = k.fd],
                 i, k.fd, k.errno)
        alloc(a) ==
          socket(net_socket([a.s EXCEPT !.ios[a.ios].handle_type = ht],
                            IF type = SOCK_STREAM THEN "SOCK_STREAM"
                            ELSE "SOCK_DGRAM"),
                 a.ios)
    IN alloc(iostate_alloc(s))

do_socket(s, msg) ==
  LET parsed(a) ==
        IF a.r # NO_ERROR
        THEN [s |-> s, r |-> ERR_INVALID_ARGS, hcount |-> 0, peer |-> {}]
        ELSE IF a.type # SOCK_STREAM /\ a.type # SOCK_DGRAM
        THEN [s |-> s, r |-> "ERR_NOT_SUPPORTED", hcount |-> 0, peer |-> {}]
        ELSE socket_create(s, a.type)
      matched(ptr) ==
        IF ptr = NULL THEN [s |-> s, r |-> ERR_INVALID_ARGS,
                            hcount |-> 0, peer |-> {}]
        ELSE parsed(parse_socket_args(PathOf(msg), ptr, msg.einval))
  IN matched(match_subdir(PathOf(msg), MXRIO_SOCKET_DIR_SOCKET))

\* The reply is written by do_open itself; it always returns NO_ERROR.
\* do_accept that stores the listening descriptor in the child.
do_accept_shared_fd(s, i) ==
  LET armed(s5, j, c) ==
        [s |-> schedule_rw(s5, j), r |-> NO_ERROR,
         hcount |-> c.hcount, peer |-> c.peer]
      handles(c, j, fd) ==
        IF c.r # NO_ERROR
        THEN [s |-> iostate_release(c.s, j), r |-> c.r, hcount |-> c.hcount,
              peer |-> c.peer]
        ELSE armed(socket_signals_set(fd_event_set(c.s, fd, EVENT_EXCEPT),
                                      j, {PEER_CLOSED, HALFCLOSED}),
                   j, c)
      nonblock(nb, j, fd) ==
        IF nb.errno # ""
        THEN [s |-> iostate_release(
                      [nb.s EXCEPT !.ios[i].last_errno = nb.errno], j),
              r |-> errno_to_status(nb.errno), hcount |-> 0, peer |-> {}]
        ELSE handles(create_handles(
                       [nb.s EXCEPT !.ios[i].last_errno = nb.errno], j),
                     j, fd)
      alloc(a, fd) ==
        nonblock(net_ioctl([a.s EXCEPT
                              !.ios[a.ios].handle_type = s.ios[i].handle_type,
                              !.ios[a.ios].sockfd = s.ios[i].sockfd,
                              !.trace.fd[a.ios] = s.ios[i].sockfd],
                           s.ios[i].sockfd),
                 a.ios, s.ios[i].sockfd)
      rearmed(s2, fd) == alloc(iostate_alloc(s2), fd)
      accepted(s1, fd, errno_) ==
        IF errno_ # ""
        THEN [s |-> s1, r |-> errno_to_status(errno_),
              hcount |-> 0, peer |-> {}]
        ELSE rearmed(schedule_sigconn_r(
                       IF s1.ios[i].handle_type = HANDLE_TYPE_STREAM
                       THEN mx_object_signal_peer(s1, i, {"INCOMING"}, {})
                       ELSE s1, i),
                     fd)
      stored(k) ==
        accepted([k.s EXCEPT !.ios[i].last_errno = k.errno], k.fd, k.errno)
  IN stored(net_accept(s, s.ios[i].sockfd))

\* OPEN accept on a listening IOState: the accepted connection gets an
\* IOState of its own.
do_accept(s, i) ==
  LET armed(s5, j, c) ==
        [s |-> schedule_rw(s5, j), r |-> NO_ERROR,
         hcount |-> c.hcount, peer |-> c.peer]
      handles(c, j, fd) ==
        IF c.r # NO_ERROR
        THEN [s |-> iostate_release(c.s, j), r |-> c.r, hcount |-> c.hcount,
              peer |-> c.peer]
        ELSE armed(socket_signals_set(fd_event_set(c.s, fd, EVENT_EXCEPT),
                                      j, {PEER_CLOSED, HALFCLOSED}),
                   j, c)
      nonblock(nb, j, fd) ==
        IF nb.errno # ""
        THEN [s |-> iostate_release(
                      [nb.s EXCEPT !.ios[i].last_errno = nb.errno], j),
              r |-> errno_to_status(nb.errno), hcount |-> 0, peer |-> {}]
        ELSE handles(create_handles(
                       [nb.s EXCEPT !.ios[i].last_errno = nb.errno], j),
                     j, fd)
      alloc(a, fd) ==
        nonblock(net_ioctl([a.s EXCEPT
                              !.ios[a.ios].handle_type = s.ios[i].handle_type,
                              !.ios[a.ios].sockfd = fd,
                              !.trace.fd[a.ios] = fd],
                           fd),
                 a.ios, fd)
      rearmed(s2, fd) == alloc(iostate_alloc(s2), fd)
      accepted(s1, fd, errno_) ==
        IF errno_ # ""
        THEN [s |-> s1, r |-> errno_to_status(errno_),
              hcount |-> 0, peer |-> {}]
        ELSE rearmed(schedule_sigconn_r(
                       IF s1.ios[i].handle_type = HANDLE_TYPE_STREAM
                       THEN mx_object_signal_peer(s1, i, {"INCOMING"}, {})
                       ELSE s1, i),
                     fd)
      stored(k) ==
        accepted([k.s EXCEPT !.ios[i].last_errno = k.errno], k.fd, k.errno)
  IN stored(net_accept(s, s.ios[i].sockfd))

do_open(s, i, msg) ==
  LET reply(d) ==
        [s |-> rio_reply_write(d.s, [op |-> "OPEN", status |-> d.r,
                                      hcount |-> d.hcount], d.peer).s,
         r |-> NO_ERROR, datalen |-> msg.datalen]
  IN reply(IF msg.datalen < 1 \/ msg.datalen > 1024
           THEN [s |-> s, r |-> ERR_INVALID_ARGS, hcount |-> 0, peer |-> {}]
           ELSE IF match_subdir(PathOf(msg), MXRIO_SOCKET_DIR_NONE) # NULL
           THEN do_none(s)
           ELSE IF match_subdir(PathOf(msg), MXRIO_SOCKET_DIR_SOCKET) # NULL
           THEN do_socket(s, msg)
           ELSE IF match_subdir(PathOf(msg), MXRIO_SOCKET_DIR_ACCEPT) # NULL
           THEN do_accept(s, i)
           ELSE [s |-> s, r |-> ERR_INVALID_ARGS, hcount |-> 0, peer |-> {}])

\* ------------------------------------------------------ CLOSE, HALFCLOSE
\* The requests of IOState i that the watcher has detached from client-wait
\* and not yet handed to the router.
Detached(s, i) ==
  IF s.runner.events = {}
  THEN {s.runner.q[k].id : k \in {n \in DOMAIN s.runner.q :
                                   s.runner.q[n].ios = i}}
  ELSE {}

\* do_close that forgets the client-wait queue.
do_close_keep_client_wait(s, i) ==
  LET fd == s.ios[i].sockfd
      s1 == IF fd >= 0
            THEN LET a == net_close(s, fd)
                     b == fd_event_clear(a, fd, EVENT_ALL)
                     c == wait_queue_discard(b, "WAIT_NET", fd)
                 IN [c EXCEPT !.ios[i].sockfd = -1]
            ELSE s
  IN [s |-> iostate_release(
              [s1 EXCEPT !.trace.nclose[i] = @ + 1,
                         !.trace.doomed = @ \cup Detached(s, i)], i),
      r |-> NO_ERROR]

\* do_close that returns early, releasing nothing, when sockfd is already -1.
do_close_idempotent(s, i) ==
  LET fd == s.ios[i].sockfd
      s1 == IF fd >= 0
            THEN LET a == net_close(s, fd)
                     b == fd_event_clear(a, fd, EVENT_ALL)
                     c == wait_queue_discard(b, "WAIT_NET", fd)
                     d == wait_queue_discard(c, "WAIT_SOCKET", fd)
                 IN iostate_release([d EXCEPT !.ios[i].sockfd = -1], i)
            ELSE s
  IN [s |-> [s1 EXCEPT !.trace.nclose[i] = @ + 1,
                       !.trace.doomed = @ \cup Detached(s, i)],
      r |-> NO_ERROR]

\* do_close that leaves the closed descriptor in sockfd.
do_close_keep_fd(s, i) ==
  LET fd == s.ios[i].sockfd
      s1 == IF fd >= 0
            THEN LET a == net_close(s, fd)
                     b == fd_event_clear(a, fd, EVENT_ALL)
                     c == wait_queue_discard(b, "WAIT_NET", fd)
                 IN wait_queue_discard(c, "WAIT_SOCKET", fd)
            ELSE s
  IN [s |-> iostate_release(
              [s1 EXCEPT !.trace.nclose[i] = @ + 1,
                         !.trace.doomed = @ \cup Detached(s, i)], i),
      r |-> NO_ERROR]

do_close(s, i) ==
  LET fd == s.ios[i].sockfd
      s1 == IF fd >= 0
            THEN LET a == net_close(s, fd)
                     b == fd_event_clear(a, fd, EVENT_ALL)
                     c == wait_queue_discard(b, "WAIT_NET", fd)
                     d == wait_queue_discard(c, "WAIT_SOCKET", fd)
                 IN [d EXCEPT !.ios[i].sockfd = -1]
            ELSE s
  IN [s |-> iostate_release(
              [s1 EXCEPT !.trace.nclose[i] = @ + 1,
                         !.trace.doomed = @ \cup Detached(s, i)], i),
      r |-> NO_ERROR]

\* do_halfclose that gives up the inbound direction too: the net-wait
\* requests of the sockfd are dropped and its events disarmed.
do_halfclose_both_ways(s, i) ==
  LET s1 == net_shutdown(s, s.ios[i].sockfd)
      s2 == wait_queue_discard(fd_event_clear(s1, s.ios[i].sockfd, EVENT_ALL),
                               "WAIT_NET", s.ios[i].sockfd)
  IN [s |-> socket_signals_set(s2, i, {PEER_CLOSED}), r |-> NO_ERROR]

do_halfclose(s, i) ==
  LET s1 == net_shutdown(s, s.ios[i].sockfd)
  IN [s |-> socket_signals_set(s1, i, {PEER_CLOSED}), r |-> NO_ERROR]

\* ---------------------------------------------------- CONNECT, BIND
\* do_connect that schedules READ and WRITE even when the connect is still in
\* progress.
do_connect_eager(s, i, msg) ==
  LET scheduled(s2, errno_) ==
        IF errno_ # "" /\ errno_ # EINPROGRESS
        THEN [s |-> s2, r |-> errno_to_status(errno_),
              datalen |-> msg.datalen]
        ELSE [s |-> IF s2.ios[i].handle_type = HANDLE_TYPE_STREAM
                    THEN schedule_rw(s2, i) ELSE s2,
              r |-> IF errno_ = "" THEN NO_ERROR
                    ELSE errno_to_status(errno_),
              datalen |-> 0]
      stored(s1, errno_) ==
        scheduled(IF errno_ = EINPROGRESS THEN schedule_sigconn_w(s1, i)
                  ELSE s1, errno_)
      connected(c) ==
        stored([c.s EXCEPT !.ios[i].last_errno = c.errno], c.errno)
  IN connected(net_connect(s, s.ios[i].sockfd, msg.addr))

do_connect(s, i, msg) ==
  LET scheduled(s2, errno_) ==
        IF errno_ # ""
        THEN [s |-> s2, r |-> errno_to_status(errno_),
              datalen |-> msg.datalen]
        ELSE [s |-> IF s2.ios[i].handle_type = HANDLE_TYPE_STREAM
                    THEN schedule_rw(s2, i) ELSE s2,
              r |-> NO_ERROR, datalen |-> 0]
      stored(s1, errno_) ==
        scheduled(IF errno_ = EINPROGRESS THEN schedule_sigconn_w(s1, i)
                  ELSE s1, errno_)
      connected(c) ==
        stored([c.s EXCEPT !.ios[i].last_errno = c.errno], c.errno)
  IN connected(net_connect(s, s.ios[i].sockfd, msg.addr))

do_sigconn_w(s, i) ==
  LET got(s1, g) ==
        IF g.errno = ""
        THEN [s |-> IF g.val = ""
                    THEN schedule_rw([s1 EXCEPT !.ios[i].last_errno = g.val], i)
                    ELSE [s1 EXCEPT !.ios[i].last_errno = g.val],
              r |-> NO_ERROR]
        ELSE [s |-> s1, r |-> NO_ERROR]
      signalled(s1) == got(s1, net_getsockopt_so_error(s1, s1.ios[i].sockfd))
  IN signalled(IF s.ios[i].handle_type = HANDLE_TYPE_STREAM
               THEN mx_object_signal_peer(s, i, {}, {"OUTGOING"})
               ELSE s)

\* ---------------------------------------------------- LISTEN, SIGCONN_R
do_listen(s, i, msg) ==
  LET listening(l) ==
        IF l.errno # ""
        THEN [s |-> l.s, r |-> errno_to_status(l.errno),
              datalen |-> msg.datalen]
        ELSE [s |-> schedule_sigconn_r(l.s, i), r |-> NO_ERROR,
              datalen |-> 0]
  IN listening(net_listen(s, s.ios[i].sockfd))

\* do_sigconn_r that does not raise INCOMING.
do_sigconn_r_silent(s, i) == [s |-> s, r |-> NO_ERROR]

do_sigconn_r(s, i) ==
  [s |-> IF s.ios[i].handle_type = HANDLE_TYPE_STREAM
         THEN mx_object_signal_peer(s, i, {}, {"INCOMING"})
         ELSE s,
   r |-> NO_ERROR]

do_bind(s, i, msg) ==
  LET stored(s1, errno_) ==
        IF errno_ # ""
        THEN [s |-> s1, r |-> errno_to_status(errno_),
              datalen |-> msg.datalen]
        ELSE [s |-> IF s1.ios[i].handle_type = HANDLE_TYPE_DGRAM
                    THEN schedule_r(s1, i) ELSE s1,
              r |-> NO_ERROR, datalen |-> 0]
      bound(b) == stored([b.s EXCEPT !.ios[i].last_errno = b.errno], b.errno)
  IN bound(net_bind(s, s.ios[i].sockfd, msg.addr))

\* ------------------------------------------------------ stream pipelines
\* connection_closed that tolerates no failure of the marker write.
read_connection_closed_strict(s, i) ==
  LET marked(h) ==
        IF h.r # NO_ERROR THEN [s |-> h.s, r |-> h.r]
        ELSE [s |-> h.s, r |-> NO_ERROR]
  IN marked(mx_socket_half_close(s, i))

\* connection_closed: write the half-close marker on the data endpoint.
read_connection_closed(s, i) ==
  LET marked(h) ==
        IF h.r # NO_ERROR /\ h.r # ERR_PEER_CLOSED THEN [s |-> h.s, r |-> h.r]
        ELSE [s |-> h.s, r |-> NO_ERROR]
  IN marked(mx_socket_half_close(s, i))

\* read_push that restarts from the head of rbuf after a suspension.
RECURSIVE read_push_restart(_, _)
read_push_restart(s, i) ==
  LET written(w) ==
        IF w.r # NO_ERROR
        THEN IF w.r = ERR_SHOULD_WAIT
             THEN [s |-> socket_signals_set(w.s, i, {WRITABLE}),
                   r |-> PENDING_SOCKET]
             ELSE [s |-> w.s, r |-> w.r]
        ELSE read_push_restart([w.s EXCEPT !.ios[i].roff = @ + w.n], i)
  IN IF s.ios[i].roff < s.ios[i].rlen
     THEN written(mx_socket_write(s, i, s.ios[i].rbase,
                                  s.ios[i].rlen - s.ios[i].roff))
     ELSE [s |-> fd_event_set([s EXCEPT !.ios[i].rlen = 0, !.ios[i].roff = 0],
                              s.ios[i].sockfd, EVENT_READ),
           r |-> PENDING_NET]

\* while (ios->roff < ios->rlen) push rbuf[roff..rlen) to the data endpoint
RECURSIVE read_push(_, _)
read_push(s, i) ==
  LET written(w) ==
        IF w.r # NO_ERROR
        THEN IF w.r = ERR_SHOULD_WAIT
             THEN [s |-> socket_signals_set(w.s, i, {WRITABLE}),
                   r |-> PENDING_SOCKET]
             ELSE [s |-> w.s, r |-> w.r]
        ELSE read_push([w.s EXCEPT !.ios[i].roff = @ + w.n], i)
  IN IF s.ios[i].roff < s.ios[i].rlen
     THEN written(mx_socket_write(s, i, s.ios[i].rbase + s.ios[i].roff,
                                  s.ios[i].rlen - s.ios[i].roff))
     ELSE [s |-> fd_event_set([s EXCEPT !.ios[i].rlen = 0, !.ios[i].roff = 0],
                              s.ios[i].sockfd, EVENT_READ),
           r |-> PENDING_NET]

\* read_fill that asks net_read for one byte more than the buffer holds.
read_fill_overrun(s, i) ==
  LET stored(s1, n) ==
        IF n.n = 0 \/ (n.errno # EWOULDBLOCK /\ n.errno # "")
        THEN read_connection_closed(s1, i)
        ELSE IF n.errno = EWOULDBLOCK
        THEN [s |-> fd_event_set(s1, s1.ios[i].sockfd, EVENT_READ),
              r |-> PENDING_NET]
        ELSE [s |-> [s1 EXCEPT !.ios[i].rlen = n.n, !.ios[i].roff = 0,
                               !.ios[i].rbase = n.base],
              r |-> ""]
      read(n) == stored([n.s EXCEPT !.ios[i].last_errno = n.errno], n)
      buffered(g) == read(net_read(g, g.ios[i].sockfd, RWBUF_SIZE + 1))
      got(b) == buffered([b.s EXCEPT !.ios[i].rbuf = b.buf])
  IN IF s.ios[i].rbuf = NULL THEN got(get_rwbuf(s)) ELSE buffered(s)

\* The part of do_read_stream that runs while rlen <= 0: returns the state
\* and "" to go on to the push loop, or the status the handler returns.
read_fill(s, i) ==
  LET stored(s1, n) ==
        IF n.n = 0 \/ (n.errno # EWOULDBLOCK /\ n.errno # "")
        THEN read_connection_closed(s1, i)
        ELSE IF n.errno = EWOULDBLOCK
        THEN [s |-> fd_event_set(s1, s1.ios[i].sockfd, EVENT_READ),
              r |-> PENDING_NET]
        ELSE [s |-> [s1 EXCEPT !.ios[i].rlen = n.n, !.ios[i].roff = 0,
                               !.ios[i].rbase = n.base],
              r |-> ""]
      read(n) == stored([n.s EXCEPT !.ios[i].last_errno = n.errno], n)
      buffered(g) == read(net_read(g, g.ios[i].sockfd, RWBUF_SIZE))
      got(b) == buffered([b.s EXCEPT !.ios[i].rbuf = b.buf])
  IN IF s.ios[i].rbuf = NULL THEN got(get_rwbuf(s)) ELSE buffered(s)

do_read_stream(s, i, events, signals) ==
  LET filled(f) == IF f.r = "" THEN read_push(f.s, i) ELSE f
  IN IF s.ios[i].rlen <= 0 THEN filled(read_fill(s, i)) ELSE read_push(s, i)

\* write_push that starts again from the head of wbuf after a suspension.
RECURSIVE write_push_restart(_, _)
write_push_restart(s, i) ==
  LET stored(s1, w) ==
        IF w.errno = EWOULDBLOCK
        THEN [s |-> fd_event_set([s1 EXCEPT !.ios[i].woff = 0],
                                 s1.ios[i].sockfd, EVENT_WRITE),
              r |-> PENDING_NET]
        ELSE IF w.errno # "" THEN [s |-> s1, r |-> NO_ERROR]
        ELSE write_push_restart([s1 EXCEPT !.ios[i].woff = @ + w.n], i)
      written(w) == stored([w.s EXCEPT !.ios[i].last_errno = w.errno], w)
  IN IF s.ios[i].woff < s.ios[i].wlen
     THEN written(net_write(s, s.ios[i].sockfd,
                            s.ios[i].wbase + s.ios[i].woff,
                            s.ios[i].wlen - s.ios[i].woff))
     ELSE [s |-> socket_signals_set([s EXCEPT !.ios[i].wlen = 0,
                                              !.ios[i].woff = 0],
                                    i, {READABLE, PEER_CLOSED, HALFCLOSED}),
           r |-> PENDING_SOCKET]

\* while (ios->woff < ios->wlen) push wbuf[woff..wlen) to the socket
RECURSIVE write_push(_, _)
write_push(s, i) ==
  LET stored(s1, w) ==
        IF w.errno = EWOULDBLOCK
        THEN [s |-> fd_event_set(s1, s1.ios[i].sockfd, EVENT_WRITE),
              r |-> PENDING_NET]
        ELSE IF w.errno # "" THEN [s |-> s1, r |-> NO_ERROR]
        ELSE write_push([s1 EXCEPT !.ios[i].woff = @ + w.n], i)
      written(w) == stored([w.s EXCEPT !.ios[i].last_errno = w.errno], w)
  IN IF s.ios[i].woff < s.ios[i].wlen
     THEN written(net_write(s, s.ios[i].sockfd,
                            s.ios[i].wbase + s.ios[i].woff,
                            s.ios[i].wlen - s.ios[i].woff))
     ELSE [s |-> socket_signals_set([s EXCEPT !.ios[i].wlen = 0,
                                              !.ios[i].woff = 0],
                                    i, {READABLE, PEER_CLOSED, HALFCLOSED}),
           r |-> PENDING_SOCKET]

\* A CLOSE synthesized by the write handler releases the reference held for
\* the data endpoint.
write_close(s, i, signals, pulled) ==
  [s |-> [handle_request_close([s EXCEPT !.trace.wclosed[i] = pulled], i,
                               signals)
            EXCEPT !.dataref = @ \ {i}],
   r |-> NO_ERROR]

\* write_fill that waits for the client whenever the pipe is empty, whatever
\* the signals it was dispatched with.
write_fill_wait_on_closed(s, i, signals) ==
  LET failed(h) == [s |-> h.s, r |-> h.r]
      pulled(n) ==
        IF n.r = ERR_PEER_CLOSED
        THEN write_close(n.s, i, signals, n.r)
        ELSE IF n.r = ERR_SHOULD_WAIT
        THEN [s |-> socket_signals_set(n.s, i, {READABLE, PEER_CLOSED,
                                                HALFCLOSED}),
              r |-> PENDING_SOCKET]
        ELSE IF n.r # NO_ERROR THEN failed(mx_socket_half_close(n.s, i))
        ELSE [s |-> [n.s EXCEPT !.ios[i].wlen = n.n, !.ios[i].woff = 0,
                                !.ios[i].wbase = n.base],
              r |-> ""]
      buffered(g) == pulled(mx_socket_read(g, i, RWBUF_SIZE))
      got(b) == buffered([b.s EXCEPT !.ios[i].wbuf = b.buf])
  IN IF s.ios[i].wbuf = NULL THEN got(get_rwbuf(s)) ELSE buffered(s)

\* The part of do_write_stream that runs while wlen <= 0: returns the state
\* and "" to go on to the push loop, or the status the handler returns.
write_fill(s, i, signals) ==
  LET failed(h) == [s |-> h.s, r |-> h.r]
      pulled(n) ==
        IF (n.r = ERR_SHOULD_WAIT /\ PEER_CLOSED \in signals)
           \/ n.r = ERR_PEER_CLOSED
        THEN write_close(n.s, i, signals, n.r)
        ELSE IF n.r = ERR_SHOULD_WAIT
        THEN [s |-> socket_signals_set(n.s, i, {READABLE, PEER_CLOSED,
                                                HALFCLOSED}),
              r |-> PENDING_SOCKET]
        ELSE IF n.r # NO_ERROR THEN failed(mx_socket_half_close(n.s, i))
        ELSE [s |-> [n.s EXCEPT !.ios[i].wlen = n.n, !.ios[i].woff = 0,
                                !.ios[i].wbase = n.base],
              r |-> ""]
      buffered(g) == pulled(mx_socket_read(g, i, RWBUF_SIZE))
      got(b) == buffered([b.s EXCEPT !.ios[i].wbuf = b.buf])
  IN IF s.ios[i].wbuf = NULL THEN got(get_rwbuf(s)) ELSE buffered(s)

do_write_stream(s, i, events, signals) ==
  LET filled(f) == IF f.r = "" THEN write_push(f.s, i) ELSE f
  IN IF s.ios[i].wlen <= 0 THEN filled(write_fill(s, i, signals))
     ELSE write_push(s, i)

\* ---------------------------------------------------- datagram pipelines
\* The payload is stored at offset MXIO_SOCKET_MSG_HEADER_SIZE of the
\* buffer of RWBUF_SIZE bytes, and net_recvfrom is told that RWBUF_SIZE bytes
\* are free there. A longer datagram is stored past the end of the buffer:
\* the process is aborted at that store, or the memory behind the
\* buffer is overwritten and the handler goes on.
do_read_dgram(s, i, events, signals) ==
  LET sent(w) ==
        IF w.r # NO_ERROR THEN [s |-> w.s, r |-> w.r]
        ELSE [s |-> fd_event_set([w.s EXCEPT !.ios[i].rlen = 0,
                                             !.ios[i].roff = 0],
                                 w.s.ios[i].sockfd, EVENT_READ),
              r |-> PENDING_NET]
      stored(s1, n) ==
        IF n.errno = EWOULDBLOCK
        THEN [s |-> fd_event_set(s1, s1.ios[i].sockfd, EVENT_READ),
              r |-> PENDING_NET]
        ELSE IF n.errno # "" THEN [s |-> s1, r |-> NO_ERROR]
        ELSE sent(mx_channel_write(s1, i, n.d))
      aborted(s1) == [s1 EXCEPT !.trace.aborted = TRUE]
      received(n) ==
        IF n.n > RWBUF_SIZE - MXIO_SOCKET_MSG_HEADER_SIZE
        THEN IF n.d.past = "abort"
             THEN [s |-> [aborted(n.s) EXCEPT !.trace.snapshot = aborted(n.s)],
                   r |-> ABORTED]
             ELSE stored([n.s EXCEPT !.ios[i].last_errno = n.errno,
                                     !.trace.overrun = TRUE], n)
        ELSE stored([n.s EXCEPT !.ios[i].last_errno = n.errno], n)
      buffered(g) == received(net_recvfrom(g, g.ios[i].sockfd, RWBUF_SIZE))
      got(b) == buffered([b.s EXCEPT !.ios[i].rbuf = b.buf])
  IN IF s.ios[i].rbuf = NULL THEN got(get_rwbuf(s)) ELSE buffered(s)

\* The stack frame of do_write_dgram at its mx_channel_read call: room is
\* the address of nread cut to 32 bits, nread the value the uninitialised
\* variable holds. The frame is drawn together with the message the call
\* finds in the channel.
write_dgram_frame(s, i) ==
  IF s.pipe[i].msgs # <<>> THEN Head(s.pipe[i].msgs) ELSE NoMsg

\* The datagram handed to net_sendto: the address of the message and len
\* bytes from its payload area.
sendto_datagram(m, len) == [id |-> m.id, addrlen |-> m.addrlen, len |-> len]

\* The call at line 890 passes (data_h, 0, wbuf->data, RWBUF_SIZE, &nread,
\* NULL, 0, NULL) to mx_channel_read, which takes (handle, options, bytes,
\* handles, num_bytes, num_handles, actual_bytes, actual_handles) as the
\* calls at lines 1265 and 1390 give them: num_bytes is the address of
\* nread, actual_bytes is NULL, and nread is never stored. The handler goes
\* on with the value nread happens to hold; with more than RWBUF_SIZE in it
\* net_sendto reads past the end of the buffer, where the process is
\* aborted or the memory behind the buffer is sent.
do_write_dgram(s, i, events, signals) ==
  LET rearm(s1) ==
        [s |-> socket_signals_set(s1, i, {READABLE, PEER_CLOSED}),
         r |-> PENDING_SOCKET]
      sent(t) == rearm([t.s EXCEPT !.ios[i].last_errno = t.errno])
      aborted(s1) == [s1 EXCEPT !.trace.aborted = TRUE]
      sendto(s1, m, nread) ==
        sent(net_sendto(s1, s1.ios[i].sockfd,
                        sendto_datagram(m,
                                        nread - MXIO_SOCKET_MSG_HEADER_SIZE)))
      message(c, nread) ==
        IF (c.r = ERR_SHOULD_WAIT /\ PEER_CLOSED \in signals)
           \/ c.r = ERR_PEER_CLOSED
        THEN write_close(c.s, i, signals, c.r)
        ELSE IF c.r = ERR_SHOULD_WAIT THEN rearm(c.s)
        ELSE IF c.r # NO_ERROR THEN [s |-> c.s, r |-> c.r]
        ELSE IF nread > MXIO_SOCKET_MSG_HEADER_SIZE
        THEN IF nread <= RWBUF_SIZE THEN sendto(c.s, c.m, nread)
             ELSE IF c.m.past = "abort"
             THEN [s |-> [aborted(c.s) EXCEPT !.trace.snapshot = aborted(c.s)],
                   r |-> ABORTED]
             ELSE sendto([c.s EXCEPT !.trace.overrun = TRUE], c.m, nread)
        ELSE rearm(c.s)
      buffered(g) ==
        message(mx_channel_read(g, i, write_dgram_frame(g, i).room),
                write_dgram_frame(g, i).nread)
      got(b) == buffered([b.s EXCEPT !.ios[i].wbuf = b.buf])
  IN IF s.ios[i].wbuf = NULL THEN got(get_rwbuf(s)) ELSE buffered(s)

do_read(s, i, events, signals) ==
  IF s.ios[i].handle_type = HANDLE_TYPE_STREAM
  THEN do_read_stream(s, i, events, signals)
  ELSE IF s.ios[i].handle_type = HANDLE_TYPE_DGRAM
  THEN do_read_dgram(s, i, events, signals)
  ELSE [s |-> s, r |-> "ERR_NOT_SUPPORTED"]

do_write(s, i, events, signals) ==
  IF s.ios[i].handle_type = HANDLE_TYPE_STREAM
  THEN do_write_stream(s, i, events, signals)
  ELSE IF s.ios[i].handle_type = HANDLE_TYPE_DGRAM
  THEN do_write_dgram(s, i, events, signals)
  ELSE [s |-> s, r |-> "ERR_NOT_SUPPORTED"]

\* ------------------------------------------------------- operation router
do_getsockopt(s, i, msg) ==
  LET got(g) ==
        [s |-> [s EXCEPT !.ios[i].last_errno = g.errno,
                         !.trace.optval = IF g.errno = "" THEN g.val ELSE @],
         r |-> IF g.errno # "" THEN errno_to_status(g.errno) ELSE NO_ERROR,
         datalen |-> IF g.errno # "" THEN msg.datalen
                     ELSE SOCKOPT_REPLY_SIZE]
  IN IF msg.level = SOL_SOCKET /\ msg.optname = SO_ERROR
     THEN [s |-> [s EXCEPT !.trace.optval = s.ios[i].last_errno],
           r |-> NO_ERROR, datalen |-> SOCKOPT_REPLY_SIZE]
     ELSE got(net_getsockopt(s, s.ios[i].sockfd, msg.level, msg.optname))

\* The ioctl ops that name an interface, and those that do not.
IfnameIoctls ==
  {"IOCTL_NETC_SET_IF_ADDR", "IOCTL_NETC_GET_IF_GATEWAY",
   "IOCTL_NETC_SET_IF_GATEWAY", "IOCTL_NETC_GET_DHCP_STATUS",
   "IOCTL_NETC_SET_DHCP_STATUS"}

GlobalIoctls ==
  {"IOCTL_NETC_GET_IF_INFO", "IOCTL_NETC_GET_DNS_SERVER",
   "IOCTL_NETC_SET_DNS_SERVER"}

\* msg->datalen after an ioctl whose backend call succeeded: the size of
\* the answer of a get, nothing for a set.
IoctlReplySize(op) ==
  CASE op = "IOCTL_NETC_GET_IF_INFO" -> IF_INFO_SIZE
    [] op = "IOCTL_NETC_GET_IF_GATEWAY" -> SOCKADDR_SIZE
    [] op = "IOCTL_NETC_GET_DHCP_STATUS" -> INT_SIZE
    [] op = "IOCTL_NETC_GET_DNS_SERVER" -> SOCKADDR_SIZE
    [] OTHER -> 0

\* The answer is in msg->data; last_errno is not written. A backend call
\* that fails is answered with the status of its errno and no data; an op
\* that is no ioctl of the netstack leaves the message as it came.
do_ioctl(s, i, msg) ==
  LET called(c) ==
        [s |-> c.s,
         r |-> IF c.errno # "" THEN errno_to_status(c.errno) ELSE NO_ERROR,
         datalen |-> IF c.errno # "" THEN 0 ELSE IoctlReplySize(msg.ioctl)]
  IN IF msg.ioctl \in GlobalIoctls THEN called(net_global_call(s))
     ELSE IF msg.ioctl \in IfnameIoctls
     THEN called([s |-> s, errno |-> net_if_call(msg.addr).errno])
     ELSE [s |-> s, r |-> ERR_INVALID_ARGS, datalen |-> msg.datalen]

\* Only EAI_SYSTEM carries an errno; any other result of the lookup is
\* answered NO_ERROR with retval in the reply.
do_getaddrinfo(s, i, msg) ==
  LET g == net_getaddrinfo(msg.addr)
      errno_ == IF g.ret = "EAI_SYSTEM" THEN g.errno ELSE ""
  IN [s |-> [s EXCEPT !.ios[i].last_errno = errno_],
      r |-> IF errno_ # "" THEN errno_to_status(errno_) ELSE NO_ERROR,
      datalen |-> IF errno_ # "" THEN msg.datalen ELSE GAI_REPLY_SIZE]

do_getsockname(s, i, msg) ==
  LET errno_ == net_getsockname(s, s.ios[i].sockfd).errno
  IN [s |-> [s EXCEPT !.ios[i].last_errno = errno_],
      r |-> IF errno_ # "" THEN errno_to_status(errno_) ELSE NO_ERROR,
      datalen |-> IF errno_ # "" THEN msg.datalen ELSE SOCKADDR_REPLY_SIZE]

do_getpeername(s, i, msg) ==
  LET errno_ == net_getpeername(s, s.ios[i].sockfd).errno
  IN [s |-> [s EXCEPT !.ios[i].last_errno = errno_],
      r |-> IF errno_ # "" THEN errno_to_status(errno_) ELSE NO_ERROR,
      datalen |-> IF errno_ # "" THEN msg.datalen ELSE SOCKADDR_REPLY_SIZE]

do_setsockopt(s, i, msg) ==
  LET errno_ == net_setsockopt(s, s.ios[i].sockfd, msg.level,
                               msg.optname).errno
  IN [s |-> [s EXCEPT !.ios[i].last_errno = errno_],
      r |-> IF errno_ # "" THEN errno_to_status(errno_) ELSE NO_ERROR,
      datalen |-> IF errno_ # "" THEN msg.datalen ELSE 0]

\* The ops of the table do_funcs[], the RIO ops below MXRIO_NUM_OPS that
\* have no entry in it, and an op number that is not below NUM_OPS.
FuncOps ==
  {"OPEN", "CONNECT", "BIND", "LISTEN", "IOCTL", "GETADDRINFO",
   "GETSOCKNAME", "GETPEERNAME", "GETSOCKOPT", "SETSOCKOPT", "WRITE", "READ",
   "CLOSE", "HALFCLOSE", "SIGCONN_R", "SIGCONN_W"}

NoFuncOps == {"STATUS", "CLONE", "STAT", "SEEK"}

BadOp == "NUM_OPS"

do_funcs(s, rq, events, signals) ==
  CASE rq.op = "OPEN" -> do_open(s, rq.ios, rq.msg)
    [] rq.op = "CONNECT" -> do_connect(s, rq.ios, rq.msg)
    [] rq.op = "BIND" -> do_bind(s, rq.ios, rq.msg)
    [] rq.op = "WRITE" -> do_write(s, rq.ios, events, signals)
    [] rq.op = "READ" -> do_read(s, rq.ios, events, signals)
    [] rq.op = "CLOSE" -> do_close(s, rq.ios)
    [] rq.op = "HALFCLOSE" -> do_halfclose(s, rq.ios)
    [] rq.op = "SIGCONN_W" -> do_sigconn_w(s, rq.ios)
    [] rq.op = "SIGCONN_R" -> do_sigconn_r(s, rq.ios)
    [] rq.op = "LISTEN" -> do_listen(s, rq.ios, rq.msg)
    [] rq.op = "GETSOCKOPT" -> do_getsockopt(s, rq.ios, rq.msg)
    [] rq.op = "IOCTL" -> do_ioctl(s, rq.ios, rq.msg)
    [] rq.op = "GETADDRINFO" -> do_getaddrinfo(s, rq.ios, rq.msg)
    [] rq.op = "GETSOCKNAME" -> do_getsockname(s, rq.ios, rq.msg)
    [] rq.op = "GETPEERNAME" -> do_getpeername(s, rq.ios, rq.msg)
    [] rq.op = "SETSOCKOPT" -> do_setsockopt(s, rq.ios, rq.msg)

is_message_valid(msg) ==
  ~(msg.datalen > MXIO_CHUNK_SIZE \/ msg.hcount > MXIO_MAX_HANDLES)

\* The request with msg->datalen as its handler has left it; the handlers
\* of the pseudo-ops do not write it.
handled(rq, f) ==
  IF "datalen" \in DOMAIN f THEN [rq EXCEPT !.msg.datalen = f.datalen]
  ELSE rq

\* send_status: OPEN has already replied; every other RIO op answers STATUS.
\* The reply is the request message, the handles that came with it
\* included; they are closed when the status is an error, when the message
\* is not valid and when the write fails.
send_status(s, rq, arg) ==
  LET bad == arg # NO_ERROR \/ ~is_message_valid(rq.msg)
      hcount == IF bad THEN 0 ELSE rq.msg.hcount
      status == IF arg # NO_ERROR THEN arg
                ELSE IF bad THEN ERR_INTERNAL ELSE arg
      held == [s EXCEPT !.trace.unsent = @ + rq.msg.hcount]
      written(w) ==
        IF w.r # NO_ERROR THEN discard_handles(w.s, hcount) ELSE w.s
  IN IF rq.op # "OPEN"
     THEN written(rio_reply_write(
                    IF bad THEN discard_handles(held, rq.msg.hcount) ELSE s,
                    [op |-> rq.op, status |-> status, hcount |-> hcount],
                    1..hcount))
     ELSE s

\* handle_request without the return after the net-wait put: the request
\* falls through to the client-wait put as well.
handle_request_both(s, rq, events, signals) ==
  LET done(f) ==
        IF f.r = ABORTED THEN f.s
        ELSE IF f.r = PENDING_NET
        THEN wait_queue_put(wait_queue_put(f.s, "WAIT_NET",
                                           f.s.ios[rq.ios].sockfd, rq),
                            "WAIT_SOCKET", f.s.ios[rq.ios].sockfd, rq)
        ELSE IF f.r = PENDING_SOCKET
        THEN wait_queue_put(f.s, "WAIT_SOCKET", f.s.ios[rq.ios].sockfd, rq)
        ELSE IF rq.op \in {"READ", "WRITE", "CLOSE", "HALFCLOSE",
                           "SIGCONN_R", "SIGCONN_W"}
        THEN request_free(f.s, rq)
        ELSE request_free(send_status(f.s, handled(rq, f), f.r), rq)
  IN IF rq.op \notin FuncOps \cup NoFuncOps THEN request_free(s, rq)
     ELSE IF rq.op \notin FuncOps
     THEN request_free(send_status(s, rq, ERR_INVALID_ARGS), rq)
     ELSE done(do_funcs(
                 [s EXCEPT !.uaf = @ \/ (rq.ios # NULL /\
                                         s.ios[rq.ios].state = "freed")],
                 rq, events, signals))

\* handle_request without the switch on the op: every completed request is
\* answered through send_status.
handle_request_reply_all(s, rq, events, signals) ==
  LET done(f) ==
        IF f.r = ABORTED THEN f.s
        ELSE IF f.r = PENDING_NET
        THEN wait_queue_put(f.s, "WAIT_NET", f.s.ios[rq.ios].sockfd, rq)
        ELSE IF f.r = PENDING_SOCKET
        THEN wait_queue_put(f.s, "WAIT_SOCKET", f.s.ios[rq.ios].sockfd, rq)
        ELSE request_free(send_status(f.s, handled(rq, f), f.r), rq)
  IN IF rq.op \notin FuncOps \cup NoFuncOps THEN request_free(s, rq)
     ELSE IF rq.op \notin FuncOps
     THEN request_free(send_status(s, rq, ERR_INVALID_ARGS), rq)
     ELSE done(do_funcs(
                 [s EXCEPT !.uaf = @ \/ (rq.ios # NULL /\
                                         s.ios[rq.ios].state = "freed")],
                 rq, events, signals))

\* handle_request that parks a request returning PENDING_NET on the
\* client-wait queue.
handle_request_wrong_queue(s, rq, events, signals) ==
  LET done(f) ==
        IF f.r = ABORTED THEN f.s
        ELSE IF f.r \in {PENDING_NET, PENDING_SOCKET}
        THEN wait_queue_put(f.s, "WAIT_SOCKET", f.s.ios[rq.ios].sockfd, rq)
        ELSE IF rq.op \in {"READ", "WRITE", "CLOSE", "HALFCLOSE",
                           "SIGCONN_R", "SIGCONN_W"}
        THEN request_free(f.s, rq)
        ELSE request_free(send_status(f.s, handled(rq, f), f.r), rq)
  IN IF rq.op \notin FuncOps \cup NoFuncOps THEN request_free(s, rq)
     ELSE IF rq.op \notin FuncOps
     THEN request_free(send_status(s, rq, ERR_INVALID_ARGS), rq)
     ELSE done(do_funcs(
                 [s EXCEPT !.uaf = @ \/ (rq.ios # NULL /\
                                         s.ios[rq.ios].state = "freed")],
                 rq, events, signals))

\* A request whose IOState has already been freed makes the handler work on
\* released memory; uaf records that this has happened.
handle_request(s, rq, events, signals) ==
  LET done(f) ==
        IF f.r = ABORTED THEN f.s
        ELSE IF f.r = PENDING_NET
        THEN wait_queue_put(f.s, "WAIT_NET", f.s.ios[rq.ios].sockfd, rq)
        ELSE IF f.r = PENDING_SOCKET
        THEN wait_queue_put(f.s, "WAIT_SOCKET", f.s.ios[rq.ios].sockfd, rq)
        ELSE IF rq.op \in {"READ", "WRITE", "CLOSE", "HALFCLOSE",
                           "SIGCONN_R", "SIGCONN_W"}
        THEN request_free(f.s, rq)
        ELSE request_free(send_status(f.s, handled(rq, f), f.r), rq)
  IN IF rq.op \notin FuncOps \cup NoFuncOps THEN request_free(s, rq)
     ELSE IF rq.op \notin FuncOps
     THEN request_free(send_status(s, rq, ERR_INVALID_ARGS), rq)
     ELSE done(do_funcs(
                 [s EXCEPT !.uaf = @ \/ (rq.ios # NULL /\
                                         s.ios[rq.ios].state = "freed")],
                 rq, events, signals))

\* ================================================================ actions
Idle == runner.q = <<>> /\ runner.results = <<>>

Opened(i) == ios[i].state # "unused"

\* What a run may do: how often the environment and the clients act, and
\* whether its kernel may report a closed peer by signal only.
Budget(nfaults, narrive, nchild) ==
  [arrive |-> narrive, cliwrite |-> MaxCliWrite,
   dgram |-> MaxDgram, rio |-> MaxRio, faults |-> nfaults,
   accept |-> MaxAccept + nchild - MaxAccepted,
   incoming |-> MaxIncoming + nchild - MaxAccepted,
   child |-> nchild, quiet |-> FALSE,
   pool |-> MaxPoolCalls, ops |-> MaxOps]

InitState(input, b) ==
  /\ ios = [i \in IosIds |-> UnusedIos]
  /\ rwbuf_head = <<>>
  /\ nmalloc = 0
  /\ wait_net = [fd \in FdKeys |-> <<>>]
  /\ wait_socket = [fd \in FdKeys |-> <<>>]
  /\ fd_events = [fd \in FdKeys |-> {}]
  /\ waitset = [j \in {} |-> {}]
  /\ dispatcher = {}
  /\ dataref = {}
  /\ pipe = [i \in IosIds |-> NewPipe]
  /\ sock = [fd \in Fds |-> ClosedSock]
  /\ trace = [fd |-> [i \in IosIds |-> -1],
              nclose |-> [i \in IosIds |-> 0],
              doomed |-> {},
              stale |-> {},
              wclosed |-> [i \in IosIds |-> ""],
              replies |-> <<>>,
              freed |-> {},
              refreed |-> {},
              unsent |-> 0,
              optval |-> "",
              ch |-> [ios |-> NULL, r |-> NO_ERROR,
                      handle_type |-> HANDLE_TYPE_NONE, open |-> {},
                      peer |-> {}, hcount |-> 0, acquired |-> 0,
                      data_h |-> FALSE],
              held |-> [h \in 1..NHolders |-> NULL],
              puts |-> <<>>,
              overrun |-> FALSE,
              aborted |-> FALSE,
              snapshot |-> <<>>,
              input |-> input]
  /\ runner = [q |-> <<>>, events |-> {}, signals |-> {}, results |-> <<>>]
  /\ nextrq = 0
  /\ budget = b
  /\ fault = "none"
  /\ uaf = FALSE
  /\ hw = [cpc |-> "idle", wpc |-> "recv", cmds |-> <<>>, res |-> <<>>,
           c |-> 0, round |-> 0, wround |-> 0, intr |-> {}, found |-> {},
           ret |-> <<>>]

InitChildren(nfaults, input, narrive, nchild) ==
  InitState(input, Budget(nfaults, narrive, nchild))

InitArrive(nfaults, input, narrive) ==
  InitChildren(nfaults, input, narrive, MaxAccepted)

InitFrom(nfaults, input) == InitArrive(nfaults, input, MaxArrive)

InitWith(nfaults) == InitFrom(nfaults, NoData)

Init == InitWith(0)

\* ---------------------------------------------------------- RIO dispatcher
\* A RIO message read from a registered channel is packed into a request and
\* handed to the operation router.
RioRequest(op, i, msg) ==
  LET p == request_pack([St EXCEPT !.budget.rio = @ - 1], op, i)
  IN handle_request(p.s, [p.rq EXCEPT !.msg = msg], {}, {})

\* The paths clients open: none, socket/2/1/0 (stream), socket/2/2/0
\* (datagram).
OpenPaths ==
  {MXRIO_SOCKET_DIR_NONE,
   MXRIO_SOCKET_DIR_SOCKET \o <<"/", "2", "/", "1", "/", "0">>,
   MXRIO_SOCKET_DIR_SOCKET \o <<"/", "2", "/", "2", "/", "0">>}

RioOpen ==
  /\ Idle /\ budget.rio > 0
  /\ Cardinality({i \in IosIds : ios[i].state # "unused"}) < NIos
  /\ \E path \in OpenPaths, einval \in BOOLEAN :
       Commit(RioRequest("OPEN", NULL,
                         [NoData EXCEPT !.data = path, !.datalen = Len(path),
                                        !.einval = einval]))

RioConnect ==
  /\ Idle /\ budget.rio > 0
  /\ \E i \in dispatcher, addr \in {"local", "remote", "bad"} :
       /\ ios[i].handle_type # HANDLE_TYPE_NONE
       /\ Commit(RioRequest("CONNECT", i, [NoData EXCEPT !.addr = addr]))

RioBind ==
  /\ Idle /\ budget.rio > 0
  /\ \E i \in dispatcher :
       /\ ios[i].handle_type = HANDLE_TYPE_DGRAM
       /\ Commit(RioRequest("BIND", i, [NoData EXCEPT !.addr = "local"]))

\* The client closed its RIO channel (or sent CLOSE): the dispatcher drops the
\* channel and has CLOSE processed for the IOState.
RioClose ==
  /\ Idle
  /\ \E i \in dispatcher :
       Commit(handle_request_close([St EXCEPT !.dispatcher = @ \ {i}], i, {}))

\* --------------------------------------------------------- net multiplexer
ReadyEvents(fd) ==
  LET k == sock[fd]
  IN (IF k.open /\ (k.avail > 0 \/ k.eof \/ k.err # "" \/ k.dgrams # <<>>
                    \/ k.backlog > 0)
      THEN {EVENT_READ} ELSE {})
     \cup (IF k.open /\ ((k.conn \in {"connected", "failed"} /\ k.space > 0)
                         \/ (k.type = "SOCK_DGRAM"))
           THEN {EVENT_WRITE} ELSE {})

\* A ready fd: its armed events are cleared and its net-wait requests are
\* detached for dispatch with the events that fired.
NetReady ==
  /\ Idle
  /\ \E fd \in Fds :
       LET evs == fd_events[fd] \cap ReadyEvents(fd)
           batch(w) == [w.s EXCEPT !.runner.q = w.q, !.runner.events = evs,
                                   !.runner.signals = {}]
       IN /\ evs # {}
          /\ Commit(batch(wait_queue_swap(fd_event_clear(St, fd, evs),
                                          "WAIT_NET", fd)))

\* The runner hands the next request of the detached batch to the router.
Dispatch ==
  /\ runner.q # <<>>
  /\ LET rq == Head(runner.q)
         s0 == [St EXCEPT !.runner.q = Tail(@),
                          !.trace.stale =
                             @ \cup (IF rq.id \in trace.doomed THEN {rq.id}
                                     ELSE {})]
     IN Commit(handle_request(s0, rq, runner.events, runner.signals))

\* ----------------------------------------------------------- handle watcher
\* mx_waitset_wait: every entry with a watched signal satisfied yields a
\* result; observed holds those signals and possibly other satisfied ones.
Fired == {i \in DOMAIN waitset : waitset[i] \cap Satisfied(St, i) # {}}

\* The orders in which mx_waitset_wait can list the entries of todo.
Orders(todo) ==
  {o \in [1..Cardinality(todo) -> todo] :
     \A j, k \in DOMAIN o : j # k => o[j] # o[k]}

\* results[]: one entry per fired cookie, in the order the kernel gives.
ResultSeq(obs, order) ==
  [k \in DOMAIN order |-> [cookie |-> order[k], observed |-> obs[order[k]]]]

WatcherWait ==
  /\ Idle /\ ~trace.aborted
  /\ Fired # {}
  /\ \E obs \in [Fired -> SUBSET Signals], order \in Orders(Fired) :
       /\ \A i \in Fired : obs[i] \in {Satisfied(St, i),
                                        waitset[i] \cap Satisfied(St, i)}
       /\ runner' = [runner EXCEPT !.results = ResultSeq(obs, order)]
       /\ UNCHANGED <<ios, rwbuf_head, nmalloc, wait_net, wait_socket,
                      fd_events, waitset, dispatcher, dataref, pipe, sock,
                      trace, nextrq, budget, fault, uaf, hw>>

\* watcher_result that looks at HALFCLOSED before PEER_CLOSED.
watcher_result_halfclose_first(s, i, satisfied) ==
  LET watching_signals == s.ios[i].watching_signals
      batch(w) == [w.s EXCEPT !.runner.q = w.q, !.runner.events = {},
                              !.runner.signals = satisfied]
      cleared(s1) ==
        IF HALFCLOSED \in satisfied /\ READABLE \notin satisfied
        THEN handle_request_halfclose(s1, i, satisfied)
        ELSE IF PEER_CLOSED \in satisfied /\ READABLE \notin satisfied
        THEN [handle_request_close(s1, i, satisfied) EXCEPT
                !.dataref = @ \ {i}]
        ELSE IF satisfied \cap watching_signals # {}
        THEN batch(wait_queue_swap(s1, "WAIT_SOCKET", s1.ios[i].sockfd))
        ELSE s1
  IN cleared(socket_signals_clear(s, i, satisfied))

\* The body of the results loop for one result.
watcher_result(s, i, satisfied) ==
  LET watching_signals == s.ios[i].watching_signals
      batch(w) == [w.s EXCEPT !.runner.q = w.q, !.runner.events = {},
                              !.runner.signals = satisfied]
      s1 == socket_signals_clear(s, i, satisfied)
  IN IF PEER_CLOSED \in satisfied /\ READABLE \notin satisfied
     THEN [handle_request_close(s1, i, satisfied) EXCEPT
             !.dataref = @ \ {i}]
     ELSE IF HALFCLOSED \in satisfied /\ READABLE \notin satisfied
     THEN handle_request_halfclose(s1, i, satisfied)
     ELSE IF satisfied \cap watching_signals # {}
     THEN batch(wait_queue_swap(s1, "WAIT_SOCKET", s1.ios[i].sockfd))
     ELSE s1

WatcherResult ==
  /\ runner.q = <<>> /\ runner.results # <<>>
  /\ LET res == Head(runner.results)
     IN Commit(watcher_result([St EXCEPT !.runner.results = Tail(@)],
                              res.cookie, res.observed))

\* ------------------------------------------------------------ the client
HasPipe(i) == Opened(i) /\ ios[i].handle_type # HANDLE_TYPE_NONE
              /\ trace.fd[i] >= 0 /\ ~pipe[i].peer_closed

EnvSizes == {1, RWBUF_SIZE + 1}

EnvOnly(p, k, b) ==
  /\ pipe' = p /\ sock' = k /\ budget' = b
  /\ UNCHANGED <<ios, rwbuf_head, nmalloc, wait_net, wait_socket, fd_events,
                 waitset, dispatcher, dataref, trace, runner, nextrq, fault,
                 uaf, hw>>

ClientWrite ==
  \E i \in IosIds, n \in EnvSizes :
    /\ HasPipe(i) /\ ios[i].handle_type = HANDLE_TYPE_STREAM
    /\ budget.cliwrite > 0
    /\ EnvOnly([pipe EXCEPT ![i].c2s = @ + n], sock,
               [budget EXCEPT !.cliwrite = @ - 1])

ClientDrain ==
  \E i \in IosIds :
    /\ HasPipe(i) /\ pipe[i].s2c >= PipeCap
    /\ EnvOnly([pipe EXCEPT ![i].s2c = 0], sock, budget)

\* What do_write_dgram can find on its stack: an address of nread that, cut
\* to 32 bits, is less than the shortest message or more than the longest,
\* and in nread nothing, the length of a message with one byte of payload,
\* or more than a buffer holds; past is what the build does with a read
\* past the end of a buffer.
StackFrames ==
  {[room |-> MXIO_SOCKET_MSG_HEADER_SIZE - 4, nread |-> 0, past |-> "none"]}
  \cup {[room |-> RWBUF_SIZE, nread |-> n, past |-> "none"] :
          n \in {0, MXIO_SOCKET_MSG_HEADER_SIZE + 1}}
  \cup {[room |-> RWBUF_SIZE, nread |-> RWBUF_SIZE + 4, past |-> p] :
          p \in {"abort", "overrun"}}

ClientSend ==
  \E i \in IosIds, len \in {0, 1}, addrlen \in {0, 16},
     frame \in StackFrames :
    /\ HasPipe(i) /\ ios[i].handle_type = HANDLE_TYPE_DGRAM
    /\ budget.dgram > 0
    /\ EnvOnly([pipe EXCEPT ![i].msgs =
                  Append(@, [id |-> budget.dgram, addrlen |-> addrlen,
                             len |-> len, room |-> frame.room,
                             nread |-> frame.nread, past |-> frame.past])],
               sock, [budget EXCEPT !.dgram = @ - 1])

ClientHalfClose ==
  \E i \in IosIds :
    /\ HasPipe(i) /\ ios[i].handle_type = HANDLE_TYPE_STREAM /\ ~pipe[i].hc
    /\ EnvOnly([pipe EXCEPT ![i].hc = TRUE], sock, budget)

ClientClose ==
  \E i \in IosIds, quiet \in {FALSE, budget.quiet} :
    /\ HasPipe(i)
    /\ quiet => ios[i].handle_type = HANDLE_TYPE_STREAM
    /\ EnvOnly([pipe EXCEPT ![i].peer_closed = TRUE, ![i].quiet = quiet],
               sock, budget)

\* ----------------------------------------------------------- the network
NetArrive ==
  \E fd \in Fds, n \in EnvSizes :
    /\ sock[fd].open /\ sock[fd].type = "SOCK_STREAM"
    /\ sock[fd].conn = "connected" /\ ~sock[fd].eof
    /\ budget.arrive > 0
    /\ EnvOnly(pipe, [sock EXCEPT ![fd].avail = @ + n],
               [budget EXCEPT !.arrive = @ - 1])

\* The lengths of the datagrams that arrive: no payload, one byte, and the
\* shortest payload that does not fit behind the header in a buffer. past is
\* what the build does with a store past the end of a buffer.
DgramSizes == {0, 1, RWBUF_SIZE - MXIO_SOCKET_MSG_HEADER_SIZE + 1}

NetDatagram ==
  \E fd \in Fds, len \in DgramSizes, past \in {"none", "abort", "overrun"} :
    /\ past = "none" <=> len <= RWBUF_SIZE - MXIO_SOCKET_MSG_HEADER_SIZE
    /\ sock[fd].open /\ sock[fd].type = "SOCK_DGRAM"
    /\ sock[fd].conn = "bound"
    /\ budget.arrive > 0
    /\ EnvOnly(pipe,
               [sock EXCEPT ![fd].dgrams =
                  Append(@, [id |-> budget.arrive, addrlen |-> 16,
                             len |-> len, past |-> past])],
               [budget EXCEPT !.arrive = @ - 1])

NetEof ==
  \E fd \in Fds :
    /\ sock[fd].open /\ sock[fd].conn = "connected" /\ ~sock[fd].eof
    /\ EnvOnly(pipe, [sock EXCEPT ![fd].eof = TRUE], budget)

NetError ==
  \E fd \in Fds :
    /\ sock[fd].open /\ sock[fd].conn = "connected" /\ sock[fd].err = ""
    /\ ~sock[fd].eof /\ budget.arrive > 0
    /\ EnvOnly(pipe, [sock EXCEPT ![fd].err = ECONNRESET],
               [budget EXCEPT !.arrive = @ - 1])

NetSendDrain ==
  \E fd \in Fds :
    /\ sock[fd].open /\ sock[fd].space = 0
    /\ EnvOnly(pipe, [sock EXCEPT ![fd].space = SendCap], budget)

NetConnected ==
  \E fd \in Fds, e \in {"", "ECONNREFUSED"} :
    /\ sock[fd].open /\ sock[fd].conn = "connecting"
    /\ EnvOnly(pipe,
               [sock EXCEPT ![fd].conn = IF e = "" THEN "connected"
                                         ELSE "failed",
                            ![fd].so_error = e],
               budget)

Next ==
  \/ RioOpen \/ RioConnect \/ RioBind \/ RioClose
  \/ NetReady \/ Dispatch \/ WatcherWait \/ WatcherResult
  \/ ClientWrite \/ ClientDrain \/ ClientSend \/ ClientHalfClose
  \/ ClientClose
  \/ NetArrive \/ NetDatagram \/ NetEof \/ NetError \/ NetSendDrain
  \/ NetConnected

Spec == Init /\ [][Next]_vars

\* ------------------------------------------------------ failure injection
\* The next call of one kind fails: a kernel call that runs out of memory, or
\* a backend call that is refused.
OpenFaults == {"net_socket", "net_ioctl", "channel_create", "data_create",
               "dispatcher_add"}

WaitsetFaults == {"ws_remove", "ws_add"}

ReplyFaults == {"reply_write"}

PipeFaults == {"half_close"}

InitFault == InitWith(MaxFaults)

InjectFault ==
  /\ Idle /\ fault = "none" /\ budget.faults > 0
  /\ \E k \in OpenFaults \cup WaitsetFaults \cup PipeFaults \cup ReplyFaults :
       /\ k \in OpenFaults => \A i \in IosIds : ios[i].state = "unused"
       /\ k \in WaitsetFaults \cup PipeFaults
            => \E i \in IosIds : ios[i].state # "unused"
       /\ fault' = k
       /\ budget' = [budget EXCEPT !.faults = @ - 1]
       /\ UNCHANGED <<ios, rwbuf_head, nmalloc, wait_net, wait_socket,
                      fd_events, waitset, dispatcher, dataref, pipe, sock,
                      trace, runner, nextrq, uaf, hw>>

\* The server and its clients with failures injected; the network carries
\* no data but may end a stream or break it.
NextFault ==
  \/ InjectFault
  \/ RioOpen \/ RioConnect \/ RioBind \/ RioClose
  \/ NetReady \/ Dispatch \/ WatcherWait \/ WatcherResult
  \/ ClientWrite \/ ClientSend \/ ClientHalfClose \/ ClientClose
  \/ NetConnected \/ NetEof \/ NetError

SpecFault == InitFault /\ [][NextFault]_vars

\* ------------------------------------------------------------------------
\* Listening sockets: a client listens on a stream socket and accepts the
\* connections that arrive.
\* ------------------------------------------------------------------------
RioListen ==
  /\ Idle /\ budget.accept > 0
  /\ \E i \in dispatcher :
       /\ ios[i].handle_type # HANDLE_TYPE_NONE
       /\ LET p == request_pack([St EXCEPT !.budget.accept = @ - 1],
                                 "LISTEN", i)
          IN Commit(handle_request(p.s, p.rq, {}, {}))

\* The state after GETSOCKOPT(level, optname) on the RIO channel of
\* IOState i.
GetsockoptOn(i, level, optname) ==
  LET p == request_pack([St EXCEPT !.budget.ops = @ - 1], "GETSOCKOPT", i)
  IN handle_request(p.s,
                    [p.rq EXCEPT !.msg =
                       [NoData EXCEPT !.level = level,
                                      !.optname = optname]],
                    {}, {})

RioGetsockopt ==
  /\ Idle /\ budget.ops > 0
  /\ \E i \in dispatcher, level \in {SOL_SOCKET, "IPPROTO_TCP"},
        optname \in {SO_ERROR, SO_TYPE} :
       Commit(GetsockoptOn(i, level, optname))

\* The state after OPEN accept on the RIO channel of IOState i.
AcceptOn(i) ==
  LET p == request_pack([St EXCEPT !.budget.accept = @ - 1], "OPEN", i)
  IN handle_request(p.s,
                    [p.rq EXCEPT !.msg =
                       [NoData EXCEPT
                          !.data = MXRIO_SOCKET_DIR_ACCEPT,
                          !.datalen = Len(MXRIO_SOCKET_DIR_ACCEPT)]],
                    {}, {})

\* There is room for one more accepted connection: an IOState record, a
\* descriptor, and the number of children the run allows.
CanAccept ==
  /\ \E j \in IosIds : ios[j].state = "unused"
  /\ \E f \in Fds : ~sock[f].open
  /\ Cardinality({j \in IosIds : ios[j].state # "unused"}) <= budget.child

\* OPEN accept arrives on the RIO channel of the listening socket.
RioAccept ==
  /\ Idle /\ budget.accept > 0
  /\ \E i \in dispatcher :
       /\ ios[i].handle_type # HANDLE_TYPE_NONE
       /\ IF SockOpen(St, ios[i].sockfd) /\ sock[ios[i].sockfd].backlog > 0
          THEN CanAccept
          ELSE TRUE
       /\ Commit(AcceptOn(i))

\* A connection to a listening socket completes and waits to be accepted.
NetIncoming ==
  \E fd \in Fds :
    /\ sock[fd].open /\ sock[fd].conn = "listening"
    /\ budget.incoming > 0
    /\ EnvOnly(pipe, [sock EXCEPT ![fd].backlog = @ + 1],
               [budget EXCEPT !.incoming = @ - 1])

\* A connection that waits to be accepted is reset by its peer and leaves the
\* queue.
NetAbort ==
  \E fd \in Fds :
    /\ sock[fd].open /\ sock[fd].backlog > 0
    /\ EnvOnly(pipe, [sock EXCEPT ![fd].backlog = @ - 1], budget)

NextAccept ==
  \/ RioOpen \/ RioListen \/ RioAccept \/ RioClose
  \/ NetIncoming \/ NetAbort
  \/ NetReady \/ Dispatch \/ WatcherWait \/ WatcherResult
  \/ ClientClose \/ ClientDrain \/ NetArrive

SpecAccept == Init /\ [][NextAccept]_vars

\* A listener that accepts several connections, some of them after an
\* earlier one was closed and its descriptor became free again.
InitStorm == InitChildren(0, NoData, 0, MaxChild)

NextStorm ==
  \/ RioOpen \/ RioListen \/ RioAccept \/ RioClose
  \/ NetIncoming
  \/ NetReady \/ Dispatch

SpecStorm == InitStorm /\ [][NextStorm]_vars

\* ------------------------------------------------------------------------
\* The stream pipelines under a fair schedule: the event loop keeps running,
\* ready fd events and wait-set signals are delivered, and the client drains
\* its end of the pipe whenever it is full.
\* ------------------------------------------------------------------------
InitLive == InitArrive(0, NoData, MaxLiveArrive)

NextLive ==
  \/ RioOpen \/ RioConnect
  \/ NetConnected \/ NetArrive
  \/ NetReady \/ Dispatch \/ WatcherWait \/ WatcherResult
  \/ ClientDrain \/ ClientHalfClose

\* Dispatch is enabled exactly when the batch is not empty, WatcherResult
\* exactly when the batch is empty and a wait-set result is left; weak
\* fairness of the two is stated with these conditions written out.
FairLive ==
  /\ WF_vars(NetReady) /\ WF_vars(WatcherWait) /\ WF_vars(ClientDrain)
  /\ <>[](runner.q # <<>>) => []<><<Dispatch>>_vars
  /\ <>[](runner.q = <<>> /\ runner.results # <<>>)
       => []<><<WatcherResult>>_vars

SpecLive == InitLive /\ [][NextLive]_vars /\ FairLive

\* ------------------------------------------------------------------------
\* A client that writes to its data endpoint and closes it, under a fair
\* schedule: the event loop keeps running, ready fd events and wait-set
\* signals are delivered, and the network drains the send buffer when it is
\* full.
\* ------------------------------------------------------------------------
NextGone ==
  \/ RioOpen \/ RioConnect
  \/ NetConnected \/ NetSendDrain
  \/ NetReady \/ Dispatch \/ WatcherWait \/ WatcherResult
  \/ ClientWrite \/ ClientClose

FairGone ==
  /\ WF_vars(NetReady) /\ WF_vars(WatcherWait) /\ WF_vars(NetSendDrain)
  /\ <>[](runner.q # <<>>) => []<><<Dispatch>>_vars
  /\ <>[](runner.q = <<>> /\ runner.results # <<>>)
       => []<><<WatcherResult>>_vars

SpecGone == Init /\ [][NextGone]_vars /\ FairGone

\* ------------------------------------------------------------------------
\* The START/ABORT handshake between the controller, which calls
\* handle_watcher_start and handle_watcher_stop in turn, and the watcher
\* thread in handle_watcher_loop. hw.cmds holds the bytes written to
\* s_ctrl[1] and not yet read from s_ctrl[0], hw.res the bytes written to
\* s_ctrl[0] and not yet read from s_ctrl[1]. hw.round counts the STARTs
\* sent and hw.wround the STARTs read; hw.found and hw.intr hold the rounds
\* in which the watcher's wait returned a non-control entry and in which
\* the interrupt byte was written; hw.ret holds what each stop returned.
\* ------------------------------------------------------------------------
START == 1
ABORT == 2
CTRL_COOKIE == 0

HwOnly(h) ==
  /\ hw' = h
  /\ UNCHANGED <<ios, rwbuf_head, nmalloc, wait_net, wait_socket, fd_events,
                 waitset, dispatcher, dataref, pipe, sock, trace, runner,
                 nextrq, budget, fault, uaf>>

\* handle_watcher_start: send START.
handle_watcher_start ==
  /\ hw.cpc = "idle" /\ hw.round < MaxRounds
  /\ HwOnly([hw EXCEPT !.cmds = Append(@, START), !.round = @ + 1,
                       !.cpc = "started"])

\* handle_watcher_stop, the probe with timeout 0: is a result readable?
handle_watcher_stop_probe ==
  /\ hw.cpc = "started"
  /\ HwOnly([hw EXCEPT !.cpc = IF hw.res # <<>> THEN "await" ELSE "abort"])

\* handle_watcher_stop: nothing was readable, send ABORT.
handle_watcher_stop_abort ==
  /\ hw.cpc = "abort"
  /\ HwOnly([hw EXCEPT !.cmds = Append(@, ABORT), !.cpc = "await"])

\* handle_watcher_stop: wait for the result byte, read it and return 1 when
\* it is positive, 0 otherwise.
handle_watcher_stop_read ==
  /\ hw.cpc = "await" /\ hw.res # <<>>
  /\ HwOnly([hw EXCEPT !.res = Tail(@),
                       !.ret = Append(@, IF Head(hw.res).c > 0 THEN 1 ELSE 0),
                       !.cpc = "idle"])

\* handle_watcher_loop_recv that takes ABORT for a command to start waiting.
handle_watcher_loop_recv_any ==
  /\ hw.wpc = "recv" /\ hw.cmds # <<>>
  /\ HwOnly([hw EXCEPT !.cmds = Tail(@), !.c = Head(hw.cmds),
                       !.wround = IF Head(hw.cmds) = ABORT THEN @ ELSE @ + 1,
                       !.wpc = "wait"])

\* handle_watcher_loop_wait that counts the control entry as found.
handle_watcher_loop_wait_ctrl ==
  /\ hw.wpc = "wait"
  /\ hw.cmds # <<>> \/ Fired # {}
  /\ LET c == 1
     IN HwOnly([hw EXCEPT !.c = c,
                          !.found = IF Fired # {} THEN @ \cup {hw.wround}
                                    ELSE @,
                          !.wpc = IF c > 0 THEN "interrupt" ELSE "reply"])

\* handle_watcher_loop: wait for a command and read it; ABORT is ignored.
handle_watcher_loop_recv ==
  /\ hw.wpc = "recv" /\ hw.cmds # <<>>
  /\ HwOnly(IF Head(hw.cmds) = ABORT
            THEN [hw EXCEPT !.cmds = Tail(@), !.c = ABORT]
            ELSE [hw EXCEPT !.cmds = Tail(@), !.c = Head(hw.cmds),
                            !.wround = @ + 1, !.wpc = "wait"])

\* The results of the watcher's mx_waitset_wait: the control entry when a
\* command is readable, and every socket entry with a watched signal
\* satisfied.
LoopResults(obs) ==
  (IF hw.cmds # <<>>
   THEN {[cookie |-> CTRL_COOKIE, observed |-> {READABLE}]} ELSE {})
  \cup {[cookie |-> i, observed |-> obs[i]] : i \in Fired}

\* handle_watcher_loop: mx_waitset_wait returns; c becomes 1 when a result
\* other than the control entry has observed signals.
handle_watcher_loop_wait ==
  /\ hw.wpc = "wait"
  /\ hw.cmds # <<>> \/ Fired # {}
  /\ \E obs \in [Fired -> SUBSET Signals] :
       /\ \A i \in Fired : obs[i] \in {Satisfied(St, i),
                                        waitset[i] \cap Satisfied(St, i)}
       /\ LET c == IF \E r \in LoopResults(obs) :
                        r.cookie # CTRL_COOKIE /\ r.observed # {}
                   THEN 1 ELSE 0
          IN HwOnly([hw EXCEPT !.c = c,
                               !.found = IF c = 1 THEN @ \cup {hw.wround}
                                         ELSE @,
                               !.wpc = IF c > 0 THEN "interrupt"
                                       ELSE "reply"])

\* handle_watcher_loop: send_interrupt(writefd).
handle_watcher_loop_interrupt ==
  /\ hw.wpc = "interrupt"
  /\ HwOnly([hw EXCEPT !.intr = @ \cup {hw.wround}, !.wpc = "reply"])

\* handle_watcher_loop: send the result.
handle_watcher_loop_reply ==
  /\ hw.wpc = "reply"
  /\ HwOnly([hw EXCEPT !.res = Append(@, [c |-> hw.c, round |-> hw.wround]),
                       !.wpc = "recv"])

\* The controller and the watcher thread, with clients that open sockets,
\* write to and close their data endpoints while the event loop runs.
NextWatcher ==
  \/ handle_watcher_start \/ handle_watcher_stop_probe
  \/ handle_watcher_stop_abort \/ handle_watcher_stop_read
  \/ handle_watcher_loop_recv \/ handle_watcher_loop_wait
  \/ handle_watcher_loop_interrupt \/ handle_watcher_loop_reply
  \/ RioOpen \/ ClientWrite \/ ClientClose
  \/ WatcherWait \/ WatcherResult

\* Both threads keep running: a thread that can take its next step takes it.
\* The controller calls handle_watcher_stop when its select returns, which
\* is not bound to happen.
FairWatcher ==
  /\ WF_vars(handle_watcher_stop_abort) /\ WF_vars(handle_watcher_stop_read)
  /\ WF_vars(handle_watcher_loop_recv) /\ WF_vars(handle_watcher_loop_wait)
  /\ WF_vars(handle_watcher_loop_interrupt)
  /\ WF_vars(handle_watcher_loop_reply)

SpecWatcher == Init /\ [][NextWatcher]_vars /\ FairWatcher

\* ------------------------------------------------------------------------
\* Clients that send CONNECT and BIND again and again on the RIO channel of
\* a socket, while the network connects, delivers and the pipelines run.
\* ------------------------------------------------------------------------
RioReconnect ==
  /\ Idle /\ budget.accept > 0
  /\ \E i \in dispatcher, addr \in {"local", "remote"} :
       /\ ios[i].handle_type # HANDLE_TYPE_NONE
       /\ LET p == request_pack([St EXCEPT !.budget.accept = @ - 1],
                                 "CONNECT", i)
          IN Commit(handle_request(p.s,
                                   [p.rq EXCEPT !.msg =
                                      [NoData EXCEPT !.addr = addr]],
                                   {}, {}))

RioRebind ==
  /\ Idle /\ budget.accept > 0
  /\ \E i \in dispatcher :
       /\ ios[i].handle_type # HANDLE_TYPE_NONE
       /\ LET p == request_pack([St EXCEPT !.budget.accept = @ - 1],
                                 "BIND", i)
          IN Commit(handle_request(p.s,
                                   [p.rq EXCEPT !.msg =
                                      [NoData EXCEPT !.addr = "local"]],
                                   {}, {}))

NextConn ==
  \/ RioOpen \/ RioReconnect \/ RioRebind
  \/ NetConnected \/ NetArrive \/ NetDatagram
  \/ NetReady \/ Dispatch \/ WatcherWait \/ WatcherResult
  \/ ClientWrite \/ ClientSend

SpecConn == Init /\ [][NextConn]_vars

\* ------------------------------------------------------------------------
\* The RIO ops that ask the backend about a socket, a name or an interface,
\* and the ops that have no handler.
\* ------------------------------------------------------------------------
\* The handle counts of the requests read from a channel: the message has
\* room for one handle more than it may carry.
HandleCounts == {0, 2, MXIO_MAX_HANDLES + 1}

\* The data lengths of those requests: none, and one byte more than the
\* message has room for.
DataLens == {0, MXIO_CHUNK_SIZE + 1}

\* The state after the request op with message msg has been read from the
\* RIO channel of IOState i.
RioCall(op, i, msg) ==
  LET p == request_pack([St EXCEPT !.budget.ops = @ - 1], op, i)
  IN handle_request(p.s, [p.rq EXCEPT !.msg = msg], {}, {})

RioSetsockopt ==
  /\ Idle /\ budget.ops > 0
  /\ \E i \in dispatcher, level \in {SOL_SOCKET, "IPPROTO_TCP"},
        hc \in HandleCounts, dl \in DataLens :
       Commit(RioCall("SETSOCKOPT", i,
                      [NoData EXCEPT !.level = level, !.optname = SO_TYPE,
                                     !.hcount = hc, !.datalen = dl]))

RioGetsockname ==
  /\ Idle /\ budget.ops > 0
  /\ \E i \in dispatcher : Commit(RioCall("GETSOCKNAME", i, NoData))

RioGetpeername ==
  /\ Idle /\ budget.ops > 0
  /\ \E i \in dispatcher : Commit(RioCall("GETPEERNAME", i, NoData))

RioGetaddrinfo ==
  /\ Idle /\ budget.ops > 0
  /\ \E i \in dispatcher, node \in {"local", "remote", "bad"} :
       Commit(RioCall("GETADDRINFO", i, [NoData EXCEPT !.addr = node]))

\* A backend call that names no interface is about to fail.
GlobalFails ==
  /\ Idle /\ fault = "none" /\ budget.ops > 0
  /\ dispatcher # {}
  /\ \E k \in GlobalFaults :
       /\ fault' = k
       /\ UNCHANGED <<ios, rwbuf_head, nmalloc, wait_net, wait_socket,
                      fd_events, waitset, dispatcher, dataref, pipe, sock,
                      trace, runner, nextrq, budget, uaf, hw>>

RioIoctl ==
  /\ Idle /\ budget.ops > 0
  /\ \E i \in dispatcher, ifname \in {"local", "bad"},
        op \in {"IOCTL_NETC_GET_IF_INFO", "IOCTL_NETC_SET_IF_ADDR",
                "IOCTL_NETC_GET_DNS_SERVER", "IOCTL_OTHER"} :
       Commit(RioCall("IOCTL", i,
                      [NoData EXCEPT !.ioctl = op, !.addr = ifname]))

\* A request whose op has no handler, or is no op at all.
RioNoFunc ==
  /\ Idle /\ budget.ops > 0
  /\ \E i \in dispatcher, op \in NoFuncOps \cup {BadOp},
        hc \in HandleCounts :
       Commit(RioCall(op, i, [NoData EXCEPT !.hcount = hc]))

NextRio ==
  \/ RioOpen \/ RioConnect \/ RioGetsockopt
  \/ RioSetsockopt \/ RioGetsockname \/ RioGetpeername \/ RioGetaddrinfo
  \/ RioIoctl \/ RioNoFunc \/ RioListen \/ GlobalFails

SpecRio == Init /\ [][NextRio]_vars

\* The RIO ops next to the pseudo-ops: clients open sockets, ask about them,
\* bind or connect them or listen on them, write to their data endpoints,
\* half-close them and go away, while the network completes connections,
\* delivers the end of a stream and brings new connections in; the net
\* multiplexer and the handle watcher have the requests that wait dispatched.
\* A run asks about a socket it opened while a stream is written to
\* (RouteAsks), or sends on the socket it opened (RouteSends), or takes it
\* through a bind, a connection or a listen (RouteConnects).
RouteAsks ==
  [Budget(0, 0, MaxAccepted) EXCEPT !.rio = 1, !.accept = 0, !.dgram = 0]

RouteSends ==
  [Budget(0, 0, MaxAccepted) EXCEPT !.ops = 0, !.rio = 1, !.accept = 0]

RouteConnects ==
  [Budget(0, 0, MaxAccepted) EXCEPT !.ops = 0, !.accept = 1, !.incoming = 1]

InitRoute ==
  \E b \in {RouteAsks, RouteSends, RouteConnects} : InitState(NoData, b)

NextRoute ==
  \/ RioOpen \/ RioGetsockopt \/ RioSetsockopt \/ RioGetsockname
  \/ RioGetpeername \/ RioGetaddrinfo \/ RioIoctl \/ RioNoFunc \/ RioClose
  \/ RioConnect \/ RioBind \/ RioListen
  \/ NetConnected \/ NetIncoming \/ NetReady \/ NetEof
  \/ Dispatch \/ WatcherWait \/ WatcherResult
  \/ ClientWrite \/ ClientSend \/ ClientClose \/ ClientHalfClose

SpecRoute == InitRoute /\ [][NextRoute]_vars

\* ------------------------------------------------------------------------
\* The stream write handler under every set of signals: handle_request is
\* an entry point of the file, and the signals it passes to the handlers
\* are its caller's. Besides the handle watcher, a caller hands it the
\* requests that wait for the client of an IOState with signals of its own
\* choice.
\* ------------------------------------------------------------------------
RouterCall ==
  /\ Idle
  /\ \E i \in IosIds, signals \in SUBSET {READABLE, PEER_CLOSED} :
       LET batch(w) == [w.s EXCEPT !.runner.q = w.q, !.runner.events = {},
                                   !.runner.signals = signals]
       IN /\ ios[i].state = "live" /\ ios[i].sockfd >= 0
          /\ wait_socket[ios[i].sockfd] # <<>>
          /\ Commit(batch(wait_queue_swap(St, "WAIT_SOCKET", ios[i].sockfd)))

NextPull ==
  \/ RioOpen \/ RioConnect \/ NetConnected
  \/ NetReady \/ Dispatch \/ WatcherWait \/ WatcherResult \/ RouterCall
  \/ ClientWrite \/ ClientClose

InitPull ==
  InitState(NoData, [Budget(0, MaxArrive, MaxAccepted) EXCEPT !.quiet = TRUE])

SpecPull == InitPull /\ [][NextPull]_vars

\* ------------------------------------------------------------------------
\* The buffer pool on its own: holders call get_rwbuf and put_rwbuf in any
\* order, each putting a buffer it got at most once, or putting NULL.
\* ------------------------------------------------------------------------
Holders == 1..NHolders

PoolCall(s) == [s EXCEPT !.budget.pool = @ - 1]

PoolGet ==
  /\ budget.pool > 0
  /\ rwbuf_head # <<>> \/ nmalloc < MaxBufs
  /\ \E h \in Holders :
       /\ trace.held[h] = NULL
       /\ LET got(g) ==
                [g.s EXCEPT !.trace.held[h] = g.buf,
                            !.trace.puts =
                               SelectSeq(@, LAMBDA b : b # g.buf)]
          IN Commit(got(get_rwbuf(PoolCall(St))))

PoolPut ==
  /\ budget.pool > 0
  /\ \E h \in Holders :
       /\ trace.held[h] # NULL
       /\ Commit(put_rwbuf([PoolCall(St) EXCEPT
                              !.trace.held[h] = NULL,
                              !.trace.puts = Append(@, trace.held[h])],
                           trace.held[h]))

PoolPutNull ==
  /\ budget.pool > 0
  /\ Commit(put_rwbuf(PoolCall(St), NULL))

NextPool == PoolGet \/ PoolPut \/ PoolPutNull

SpecPool == Init /\ [][NextPool]_vars

\* ------------------------------------------------------------------------
\* OPEN payloads: the first request of a client is an OPEN with any payload.
\* ------------------------------------------------------------------------
TailChars == {"1", "2", "/", " ", "x"}

Tails(n) == UNION {[1..k -> TailChars] : k \in 0..n}

\* First segments, each alone or followed by one more character.
HeadPaths ==
  {h \o t : h \in {<<>>, <<"x">>, <<"n", "o", "n">>, MXRIO_SOCKET_DIR_NONE,
                    MXRIO_SOCKET_DIR_SOCKET, MXRIO_SOCKET_DIR_ACCEPT},
            t \in Tails(1)}

SocketPaths == {MXRIO_SOCKET_DIR_SOCKET \o <<"/">> \o t : t \in Tails(MaxTail)}

\* Arguments with white space other than ' ' and with integers that do not
\* fit an int or a long.
WideArgs ==
    {<<"\t", "2", "/", "1", "/", "0">>,
     <<"2", "/", "4", "2", "9", "4", "9", "6", "7", "2", "9", "7", "/",
     "0">>,
     <<"2", "/", "-", "4", "2", "9", "4", "9", "6", "7", "2", "9", "5", "/",
     "0">>,
     <<"9", "9", "9", "9", "9", "9", "9", "9", "9", "9", "9", "9", "9", "9",
     "9", "9", "9", "9", "9", "9", "/", "1", "/", "0">>,
     <<"2", "/", "1", "/", "-", "9", "2", "2", "3", "3", "7", "2", "0", "3",
     "6", "8", "5", "4", "7", "7", "5", "8", "0", "9">>}

WidePaths == {MXRIO_SOCKET_DIR_SOCKET \o <<"/">> \o a : a \in WideArgs}

OpenInputs ==
  {[NoData EXCEPT !.data = p, !.datalen = Len(p), !.einval = e] :
     p \in HeadPaths \cup SocketPaths \cup WidePaths, e \in BOOLEAN}
  \cup {[NoData EXCEPT !.data = p, !.datalen = n] :
          p \in HeadPaths, n \in {0, 1025}}

InitOpen == \E input \in OpenInputs : InitFrom(0, input)

\* OPEN accept is sent on the channel of a listening socket, not on the
\* root channel.
ReachesAccept(msg) ==
  /\ msg.datalen >= 1 /\ msg.datalen <= 1024
  /\ match_subdir(PathOf(msg), MXRIO_SOCKET_DIR_NONE) = NULL
  /\ match_subdir(PathOf(msg), MXRIO_SOCKET_DIR_SOCKET) = NULL
  /\ match_subdir(PathOf(msg), MXRIO_SOCKET_DIR_ACCEPT) # NULL

OpenInput ==
  /\ nextrq = 0
  /\ ~ReachesAccept(trace.input)
  /\ Commit(RioRequest("OPEN", NULL, trace.input))

NextOpen == OpenInput

SpecOpen == InitOpen /\ [][NextOpen]_vars

\* ------------------------------------------------------------------------
\* Properties
\* ------------------------------------------------------------------------

\* C1: for every stream IOState, the bytes written to the data endpoint so
\* far, followed by the bytes still buffered in rbuf[roff..rlen), are exactly
\* the bytes net_read has returned so far, in the same order.
C1_StreamBytesInOrder ==
  \A i \in IosIds :
    (ios[i].state = "live" /\ ios[i].handle_type = HANDLE_TYPE_STREAM
       /\ trace.fd[i] >= 0)
    => AppendRun(pipe[i].out, ios[i].rbase + ios[i].roff,
                 ios[i].rlen - ios[i].roff)
       = Prefix(sock[trace.fd[i]].rd)

\* Two net_read results (a full buffer and one more byte) have reached the
\* client as one run, after a short write suspended the READ at roff > 0.
C1_Resumed ==
  \E i \in IosIds :
    /\ ios[i].state = "live"
    /\ ios[i].handle_type = HANDLE_TYPE_STREAM
    /\ pipe[i].out = << <<0, RWBUF_SIZE + 1>> >>

\* C2: a request record is on at most one wait queue at a time: the ids
\* queued on the net-wait and client-wait queues are pairwise distinct.
C2_OneQueueAtATime ==
  /\ \A f \in FdKeys, g \in FdKeys :
       \A k \in DOMAIN wait_net[f], m \in DOMAIN wait_socket[g] :
         wait_net[f][k].id # wait_socket[g][m].id
  /\ \A f \in FdKeys, g \in FdKeys :
       \A k \in DOMAIN wait_net[f], m \in DOMAIN wait_net[g] :
         (f # g \/ k # m) => wait_net[f][k].id # wait_net[g][m].id
  /\ \A f \in FdKeys, g \in FdKeys :
       \A k \in DOMAIN wait_socket[f], m \in DOMAIN wait_socket[g] :
         (f # g \/ k # m) => wait_socket[f][k].id # wait_socket[g][m].id

\* Requests of one socket wait on both queues at the same moment.
C2_BothQueuesBusy ==
  \E f \in Fds : wait_net[f] # <<>> /\ wait_socket[f] # <<>>

\* C3: once CLOSE has been processed for an IOState whose socket was fd,
\* both wait queues of fd are empty, the event mask of fd is zero and the
\* IOState's sockfd is -1.
C3_ClosePurges ==
  \A i \in IosIds :
    (trace.nclose[i] > 0 /\ trace.fd[i] >= 0)
    => /\ wait_net[trace.fd[i]] = <<>>
       /\ wait_socket[trace.fd[i]] = <<>>
       /\ fd_events[trace.fd[i]] = {}
       /\ (ios[i].state = "live" => ios[i].sockfd = -1)

\* A connected stream socket, whose READ and WRITE requests were waiting,
\* has been closed while its record is still referenced.
C3_ClosedConnected ==
  \E i \in IosIds :
    /\ trace.nclose[i] = 1
    /\ ios[i].state = "live"
    /\ trace.fd[i] >= 0
    /\ sock[trace.fd[i]].conn = "connected"

\* C4: after CLOSE has been processed for an IOState, no handler is
\* dispatched for a request of that IOState that was pending at the CLOSE.
C4_NoDispatchAfterClose ==
  trace.stale = {}

\* C6: the refcount of an IOState equals the number of its holders: the RIO
\* dispatcher registration plus the data-endpoint watch.
C6_RefcountIsHolders ==
  \A i \in IosIds :
    ios[i].state # "unused"
    => ios[i].refcount = Cardinality(dispatcher \cap {i})
                         + Cardinality(dataref \cap {i})

\* C7: the buffer cursors stay in range: 0 <= roff <= rlen <= 65536 and
\* 0 <= woff <= wlen <= 65536, and a non-empty range has its buffer.
C7_CursorsInRange ==
  \A i \in IosIds :
    ios[i].state = "live"
    => /\ 0 <= ios[i].roff /\ ios[i].roff <= ios[i].rlen
       /\ ios[i].rlen <= RWBUF_SIZE
       /\ 0 <= ios[i].woff /\ ios[i].woff <= ios[i].wlen
       /\ ios[i].wlen <= RWBUF_SIZE
       /\ (ios[i].rlen > 0 => ios[i].rbuf # NULL)
       /\ (ios[i].wlen > 0 => ios[i].wbuf # NULL)

\* A full read buffer is partly pushed: 0 < roff < rlen = RWBUF_SIZE.
C7_FullBufferPartlyPushed ==
  \E i \in IosIds :
    /\ ios[i].state = "live"
    /\ ios[i].rlen = RWBUF_SIZE
    /\ 0 < ios[i].roff /\ ios[i].roff < ios[i].rlen

\* C8: datagrams map one to one: every message read from the data channel
\* is one sendto, and every recvfrom is one message on the data channel.
C8_DgramOneToOne ==
  \A i \in IosIds :
    (ios[i].state = "live" /\ ios[i].handle_type = HANDLE_TYPE_DGRAM
       /\ trace.fd[i] >= 0)
    => /\ sock[trace.fd[i]].sent
            = [k \in DOMAIN pipe[i].chan_in |->
                 sendto_datagram(pipe[i].chan_in[k], pipe[i].chan_in[k].len)]
       /\ (~pipe[i].peer_closed
             => pipe[i].chan_out = sock[trace.fd[i]].recvd)

\* A CLOSE handled for IOState i whose sockfd is already -1.
ClosedAgain(i) ==
  /\ ios[i].state = "live"
  /\ ios[i].sockfd = -1
  /\ trace.nclose[i] > 0
  /\ trace.nclose'[i] = trace.nclose[i] + 1

\* C10 as stated: CLOSE on an IOState whose sockfd is already -1 changes
\* nothing: no net_close, no queue or event change, no refcount release.
C10_SecondCloseNoOp ==
  [][\A i \in IosIds :
       ClosedAgain(i)
       => /\ sock' = sock
          /\ wait_net' = wait_net
          /\ wait_socket' = wait_socket
          /\ fd_events' = fd_events
          /\ ios'[i].sockfd = -1
          /\ ios'[i].state = ios[i].state
          /\ ios'[i].refcount = ios[i].refcount]_vars

\* C10: CLOSE on an IOState whose sockfd is already -1 calls no net_close
\* and changes no queue or event mask, but it releases one reference.
C10_SecondCloseReleases ==
  [][\A i \in IosIds :
       ClosedAgain(i)
       => /\ sock' = sock
          /\ wait_net' = wait_net
          /\ wait_socket' = wait_socket
          /\ fd_events' = fd_events
          /\ ios'[i].sockfd = -1
          /\ ios'[i].refcount = ios[i].refcount - 1]_vars

\* Two CLOSEs were handled for one IOState and its socket was closed once.
C10_ClosedTwice ==
  \E i \in IosIds :
    /\ trace.nclose[i] = 2
    /\ trace.fd[i] >= 0
    /\ sock[trace.fd[i]].closes = 1

\* The characters of path before its first '/'.
FirstSegment(path) ==
  LET cut == {k \in 1..Len(path) : path[k] = "/"}
  IN IF cut = {} THEN path
     ELSE SubSeq(path, 1, (CHOOSE k \in cut : \A m \in cut : k <= m) - 1)

InvalidOpen(msg) ==
  \/ msg.datalen = 0
  \/ msg.datalen > 1024
  \/ FirstSegment(PathOf(msg)) \notin {MXRIO_SOCKET_DIR_NONE,
                                        MXRIO_SOCKET_DIR_SOCKET,
                                        MXRIO_SOCKET_DIR_ACCEPT}

\* C13: an OPEN whose payload length is 0 or above 1024, or whose first path
\* segment is none of none, socket, accept, is answered INVALID_ARGS and
\* creates no IOState, no socket and no handles.
C13_InvalidOpenRejected ==
  (nextrq > 0 /\ InvalidOpen(trace.input))
  => /\ trace.replies = <<[op |-> "OPEN", status |-> ERR_INVALID_ARGS,
                           hcount |-> 0]>>
     /\ \A i \in IosIds : ios[i] = UnusedIos
     /\ \A fd \in Fds : sock[fd] = ClosedSock
     /\ dispatcher = {} /\ dataref = {} /\ DOMAIN waitset = {}

\* An OPEN of "nonex", whose first segment only starts like a directory
\* name, has been answered.
C13_NearMissAnswered ==
  /\ nextrq > 0
  /\ trace.input.datalen = 5
  /\ PathOf(trace.input) = MXRIO_SOCKET_DIR_NONE \o <<"x">>

\* The segments of path, split at every '/'.
RECURSIVE Segments(_)
Segments(path) ==
  IF FirstSegment(path) = path THEN <<path>>
  ELSE <<FirstSegment(path)>>
       \o Segments(SubSeq(path, Len(FirstSegment(path)) + 2, Len(path)))

\* The decimal numeral seg as a 64-bit magnitude; carry is positive when it
\* does not fit 64 bits.
RECURSIVE DecimalValue(_)
DecimalValue(seg) ==
  IF seg = <<>> THEN [val |-> LongZero, carry |-> 0]
  ELSE LET front == DecimalValue(SubSeq(seg, 1, Len(seg) - 1))
           m == long_mul10_add(front.val, DigitVal[seg[Len(seg)]])
       IN [val |-> m.val, carry |-> front.carry + m.carry]

\* The int n is exactly the number the decimal numeral seg denotes.
IsValueOf(seg, n) ==
  LET d == DecimalValue(seg)
  IN /\ d.carry = 0 /\ d.val[4] = 0 /\ d.val[3] = 0
     /\ d.val[2] < Limb \div 2
     /\ n = d.val[2] * Limb + d.val[1]

IsDecimal(seg) ==
  seg # <<>> /\ \A k \in 1..Len(seg) : seg[k] \in DOMAIN DigitVal

\* path is <d>/<t>/<p> with three non-empty decimal integers.
StrictArgs(path) ==
  /\ Len(Segments(path)) = 3
  /\ \A k \in 1..3 : IsDecimal(Segments(path)[k])

\* C14: after socket/, every <d>/<t>/<p> of three non-empty decimal integers
\* parses to exactly (d, t, p), and every other string (trailing characters,
\* an empty segment, a non-decimal segment) is rejected with INVALID_ARGS.
C14_StrictParse ==
  \A input \in {trace.input} :
    LET path == PathOf(input)
        ptr == match_subdir(path, MXRIO_SOCKET_DIR_SOCKET)
        args == SubSeq(path, ptr, Len(path))
    IN (nextrq > 0 /\ input.datalen = Len(path) /\ Len(path) >= 7
          /\ ptr # NULL)
       => IF StrictArgs(args)
          THEN /\ LET a == parse_socket_args(path, ptr, input.einval)
                  IN /\ a.r = NO_ERROR
                     /\ IsValueOf(Segments(args)[1], a.domain)
                     /\ IsValueOf(Segments(args)[2], a.type)
                     /\ IsValueOf(Segments(args)[3], a.protocol)
               /\ trace.replies[1].status # ERR_INVALID_ARGS
          ELSE trace.replies[1].status = ERR_INVALID_ARGS

\* The requests held on a wait queue, and whether rq is on the queue q.
QueuedIds(w) == UNION {{w[fd][k].id : k \in DOMAIN w[fd]} : fd \in FdKeys}

InQueue(q, rq) == \E k \in DOMAIN q : q[k] = rq

\* A step of the operation router on the request at the head of the batch,
\* and what the handler of that request returns.
RouterStep == runner.q # <<>> /\ runner'.q = Tail(runner.q)

HandlerReturn ==
  do_funcs([St EXCEPT !.runner.q = Tail(@)], Head(runner.q), runner.events,
           runner.signals).r

\* rq, just suspended, is parked on the net-wait queue of its IOState's
\* sockfd only, with the fd event of its direction armed.
ParkedOnNet(rq) ==
  LET fd == ios'[rq.ios].sockfd
  IN /\ InQueue(wait_net'[fd], rq)
     /\ rq.id \notin QueuedIds(wait_socket')
     /\ (IF rq.op = "WRITE" THEN EVENT_WRITE ELSE EVENT_READ) \in fd_events'[fd]

\* rq, just suspended, is parked on the client-wait queue of its IOState's
\* sockfd only, with the data-endpoint signal of its direction watched.
ParkedOnClient(rq) ==
  LET fd == ios'[rq.ios].sockfd
      sig == IF rq.op = "WRITE" THEN READABLE ELSE WRITABLE
  IN /\ InQueue(wait_socket'[fd], rq)
     /\ rq.id \notin QueuedIds(wait_net')
     /\ sig \in ios'[rq.ios].watching_signals
     /\ rq.ios \in DOMAIN waitset'
     /\ sig \in waitset'[rq.ios]

\* C11: when the handler of a dispatched request returns PENDING_NET the
\* request is put on net-wait under its IOState's sockfd, when it returns
\* PENDING_SOCKET on client-wait under sockfd; either way the request is not
\* freed, no reply is written, and the fd event or data-endpoint signal it
\* waits for is armed.
C11_SuspendParksAndArms ==
  [][(RouterStep /\ HandlerReturn \in {PENDING_NET, PENDING_SOCKET})
     => /\ HandlerReturn = PENDING_NET => ParkedOnNet(Head(runner.q))
        /\ HandlerReturn = PENDING_SOCKET => ParkedOnClient(Head(runner.q))
        /\ Head(runner.q).id \notin trace'.freed
        /\ trace'.replies = trace.replies]_vars

\* A stream holds a suspended READ on client-wait and a suspended WRITE on
\* net-wait.
C11_BothDirectionsParked ==
  \E fd \in Fds :
    /\ \E k \in DOMAIN wait_socket[fd] : wait_socket[fd][k].op = "READ"
    /\ \E k \in DOMAIN wait_net[fd] : wait_net[fd][k].op = "WRITE"

\* This step routes a request read from a RIO channel.
RioStep ==
  \/ budget'.rio # budget.rio \/ budget'.ops # budget.ops
  \/ budget'.accept # budget.accept

\* This step routes a request whose op is no RIO op: it has no handler and
\* gets no reply.
BadOpStep ==
  \E i \in dispatcher, hc \in HandleCounts :
    St' = RioCall(BadOp, i, [NoData EXCEPT !.hcount = hc])

\* C12: a step that routes a pseudo-op (READ, WRITE, CLOSE, HALFCLOSE,
\* SIGCONN_R, SIGCONN_W) writes no RIO reply; a step that routes any other
\* request, whose handler completes, writes exactly one reply and frees the
\* request record exactly once.
C12_OneReplyOneFree ==
  [][IF RioStep
     THEN /\ \/ /\ Len(trace'.replies) = Len(trace.replies) + 1
                /\ SubSeq(trace'.replies, 1, Len(trace.replies))
                     = trace.replies
             \/ BadOpStep /\ trace'.replies = trace.replies
          /\ nextrq + 1 \in trace'.freed
          /\ trace'.refreed = {}
     ELSE /\ trace'.replies = trace.replies
          /\ trace'.refreed = {}
          /\ (RouterStep
                /\ HandlerReturn \notin {PENDING_NET, PENDING_SOCKET, ABORTED})
             => Head(runner.q).id \in trace'.freed]_vars

\* One stream socket has had SIGCONN_W routed (OUTGOING raised), then READ
\* at the end of the stream (the marker), WRITE (bytes pulled), HALFCLOSE (the
\* shutdown) and CLOSE; OPEN and CONNECT are the only requests answered, and
\* the other requests were freed without a reply.
C12_PseudoOpsRouted ==
  \E i \in IosIds :
    /\ "OUTGOING" \in pipe[i].usig
    /\ pipe[i].marker = 1
    /\ pipe[i].pulled > 0
    /\ trace.fd[i] >= 0 /\ sock[trace.fd[i]].shut = 1
    /\ trace.nclose[i] = 1
    /\ Len(trace.replies) = 2
    /\ Cardinality(trace.freed) > Len(trace.replies)

\* The requests with op `op` that a queue holds for IOState i.
OpsOf(q, i, op) == {k \in DOMAIN q : q[k].ios = i /\ q[k].op = op}

\* READ or WRITE requests of IOState i, on a wait queue or in the batch.
HasRW(i) ==
  \/ \E fd \in FdKeys, op \in {"READ", "WRITE"} :
        OpsOf(wait_net[fd], i, op) \cup OpsOf(wait_socket[fd], i, op) # {}
  \/ \E op \in {"READ", "WRITE"} : OpsOf(runner.q, i, op) # {}

\* The router dispatches SIGCONN_W for a stream IOState whose socket is open
\* and whose data endpoint the client still holds.
SigconnwStep(i) ==
  /\ RouterStep
  /\ Head(runner.q).op = "SIGCONN_W" /\ Head(runner.q).ios = i
  /\ ios[i].state = "live" /\ ios[i].handle_type = HANDLE_TYPE_STREAM
  /\ SockOpen(St, ios[i].sockfd)
  /\ ios[i].data_h /\ ~pipe[i].peer_closed

\* C17: when SIGCONN_W is dispatched for a stream IOState, OUTGOING is
\* signalled and READ and WRITE are scheduled if and only if SO_ERROR reads
\* zero; with a non-zero SO_ERROR neither OUTGOING nor CONNECTED is signalled
\* and nothing is scheduled.
C17_OutgoingIffNoError ==
  [][\A i \in IosIds :
       SigconnwStep(i) =>
         LET fd == ios[i].sockfd
             zero == sock[fd].so_error = ""
         IN /\ ("OUTGOING" \in pipe'[i].usig) <=> zero
            /\ ("CONNECTED" \in pipe'[i].usig) <=> zero
            /\ (OpsOf(wait_net'[fd], i, "READ") # {}) <=> zero
            /\ (OpsOf(wait_socket'[fd], i, "WRITE") # {}) <=> zero]_vars

\* A non-blocking connect has just been started on the stream socket of i.
ConnectStarted(i) ==
  /\ budget'.rio # budget.rio
  /\ ios[i].state = "live" /\ ios[i].handle_type = HANDLE_TYPE_STREAM
  /\ SockOpen(St, ios[i].sockfd)
  /\ sock[ios[i].sockfd].conn = "idle"
  /\ sock'[ios[i].sockfd].conn = "connecting"

\* SIGCONN_W of IOState i has been scheduled and not yet dispatched.
SigconnwWaiting(i) ==
  \/ \E fd \in FdKeys : OpsOf(wait_net[fd], i, "SIGCONN_W") # {}
  \/ OpsOf(runner.q, i, "SIGCONN_W") # {}

\* C18: a stream CONNECT that gets EINPROGRESS is answered SHOULD_WAIT and
\* leaves exactly one SIGCONN_W on net-wait for the fd with EVENT_WRITE armed;
\* until SIGCONN_W is dispatched CONNECTED is not signalled and no READ or
\* WRITE is scheduled; when SIGCONN_W is dispatched with SO_ERROR 0, CONNECTED
\* and OUTGOING are signalled and a WRITE waits on client-wait with READABLE
\* watched.
C18_ConnectInProgress ==
  /\ [](\A i \in IosIds :
          SigconnwWaiting(i) => "CONNECTED" \notin pipe[i].usig /\ ~HasRW(i))
  /\ [][\A i \in IosIds :
          /\ ConnectStarted(i) =>
               LET fd == ios[i].sockfd
               IN /\ trace'.replies =
                       Append(trace.replies,
                              [op |-> "CONNECT", status |-> ERR_SHOULD_WAIT,
                               hcount |-> 0])
                  /\ Cardinality(OpsOf(wait_net'[fd], i, "SIGCONN_W")) = 1
                  /\ Len(wait_net'[fd]) = 1
                  /\ EVENT_WRITE \in fd_events'[fd]
          /\ (SigconnwStep(i) /\ sock[ios[i].sockfd].so_error = "") =>
               /\ {"CONNECTED", "OUTGOING"} \subseteq pipe'[i].usig
               /\ OpsOf(wait_socket'[ios[i].sockfd], i, "WRITE") # {}
               /\ READABLE \in ios'[i].watching_signals
               /\ i \in DOMAIN waitset' /\ READABLE \in waitset'[i]]_vars

\* A connect that was in progress has completed: both user signals are up
\* and the WRITE request waits for client data.
C18_ConnectCompleted ==
  \E i \in IosIds :
    /\ ios[i].state = "live"
    /\ {"CONNECTED", "OUTGOING"} \subseteq pipe[i].usig
    /\ OpsOf(wait_socket[ios[i].sockfd], i, "WRITE") # {}

\* IOState i is a stream socket that listens, with its data endpoint held
\* by the client.
Listening(i) ==
  /\ ios[i].state = "live" /\ ios[i].handle_type = HANDLE_TYPE_STREAM
  /\ SockOpen(St, ios[i].sockfd)
  /\ sock[ios[i].sockfd].conn = "listening"
  /\ ios[i].data_h /\ ~pipe[i].peer_closed

\* This step is OPEN accept on the channel of the listening IOState i.
AcceptStep(i) ==
  /\ budget'.accept # budget.accept
  /\ Listening(i)
  /\ sock[ios[i].sockfd].backlog > 0 => CanAccept
  /\ St' = AcceptOn(i)

\* SIGCONN_R of i waits on the net-wait queue of fd, with EVENT_READ armed.
SigconnrArmed(w, ev, i, fd) ==
  OpsOf(w[fd], i, "SIGCONN_R") # {} /\ EVENT_READ \in ev[fd]

\* C15: OPEN accept on a listening IOState whose backend accept fails with
\* EWOULDBLOCK is answered SHOULD_WAIT, creates no child IOState, and leaves
\* a SIGCONN_R request armed on net-wait for the listening fd with EVENT_READ
\* set.
C15_WouldBlockRearms ==
  [][\A i \in IosIds :
       (AcceptStep(i) /\ sock[ios[i].sockfd].backlog = 0)
       => /\ trace'.replies =
               Append(trace.replies, [op |-> "OPEN", status |-> ERR_SHOULD_WAIT,
                                      hcount |-> 0])
          /\ \A j \in IosIds : ios'[j].state = ios[j].state
          /\ SigconnrArmed(wait_net', fd_events', i, ios[i].sockfd)]_vars

\* The IOStates that the step creates.
Born == {j \in IosIds : ios[j].state = "unused" /\ ios'[j].state # "unused"}

\* C16: a successful accept creates one new child IOState, distinct from the
\* parent and from every other IOState, that owns the descriptor the backend
\* returned; and no two live IOStates ever hold the same sockfd >= 0.
C16_DistinctChildren ==
  /\ [](\A i, j \in IosIds :
          (i # j /\ ios[i].state = "live" /\ ios[j].state = "live"
           /\ ios[i].sockfd >= 0)
          => ios[i].sockfd # ios[j].sockfd)
  /\ [][\A i \in IosIds :
          (AcceptStep(i) /\ sock[ios[i].sockfd].backlog > 0)
          => /\ Cardinality(Born) = 1
             /\ \A j \in Born :
                  /\ j # i /\ ios'[j].state = "live"
                  /\ ios'[j].sockfd \in Fds
                  /\ ~sock[ios'[j].sockfd].open
                  /\ sock'[ios'[j].sockfd].open
                  /\ \A k \in IosIds \ {j} : ios'[k].sockfd # ios'[j].sockfd
             /\ trace'.replies =
                  Append(trace.replies, [op |-> "OPEN", status |-> NO_ERROR,
                                         hcount |-> 2])]_vars

\* A listener has accepted three connections: the first was closed, the
\* second got the descriptor of the first, and the second and the third are
\* live together, each on its own open descriptor.
C16_ChildrenAndReusedFd ==
  \E i, a, b, c \in IosIds :
    /\ Cardinality({i, a, b, c}) = 4 /\ Listening(i)
    /\ ios[a].sockfd = -1 /\ trace.nclose[a] = 1
    /\ \A j \in {b, c} :
         /\ ios[j].state = "live" /\ SockOpen(St, ios[j].sockfd)
         /\ sock[ios[j].sockfd].conn = "connected"
    /\ sock[ios[b].sockfd].gen = 2

\* C19: from a successful LISTEN on a stream IOState until it is closed,
\* whenever no handler is running either INCOMING is signalled on the data
\* endpoint or a SIGCONN_R request waits on net-wait for the listening fd
\* with EVENT_READ armed; a successful accept leaves INCOMING cleared and
\* SIGCONN_R armed again.
C19_IncomingOrArmed ==
  /\ [](\A i \in IosIds :
          (Idle /\ Listening(i))
          => \/ "INCOMING" \in pipe[i].usig
             \/ SigconnrArmed(wait_net, fd_events, i, ios[i].sockfd))
  /\ [][\A i \in IosIds :
          (AcceptStep(i) /\ sock[ios[i].sockfd].backlog > 0)
          => /\ "INCOMING" \notin pipe'[i].usig
             /\ SigconnrArmed(wait_net', fd_events', i, ios[i].sockfd)]_vars

\* A connection has been accepted and the listener waits for the next one
\* with INCOMING cleared and SIGCONN_R armed.
C19_AcceptedAndRearmed ==
  \E i \in IosIds :
    /\ Idle /\ Listening(i)
    /\ "INCOMING" \notin pipe[i].usig
    /\ \E j \in IosIds \ {i} : ios[j].state = "live"
    /\ SigconnrArmed(wait_net, fd_events, i, ios[i].sockfd)

\* IOState i is a stream socket that has not been closed.
StreamUp(i) ==
  /\ ios[i].state = "live" /\ ios[i].handle_type = HANDLE_TYPE_STREAM
  /\ SockOpen(St, ios[i].sockfd)

\* Every byte that has arrived on the socket of i has been read and written
\* to the data endpoint.
Delivered(i) ==
  /\ sock[ios[i].sockfd].avail = 0
  /\ pipe[i].out = Prefix(sock[ios[i].sockfd].rd)

\* C20: with socket-readable and pipe-writable events delivered and the
\* client draining its pipe, a suspended READ is resumed when the fd becomes
\* readable and every byte net_read returned is eventually written to the
\* data endpoint, however often the request moves between net-wait and
\* client-wait: bytes out equal bytes in.
C20_ReadPipelineLive ==
  \A i \in IosIds : StreamUp(i) ~> (StreamUp(i) /\ Delivered(i))

\* The handle watcher takes the next wait-set result.
WatcherStep ==
  /\ runner.q = <<>> /\ runner.results # <<>>
  /\ runner'.results = Tail(runner.results)

\* What the watcher does with one result, as seen in the step: a CLOSE was
\* synthesized, a HALFCLOSE was synthesized, the client-wait requests of the
\* sockfd were detached for dispatch with the observed mask, or nothing.
SynthClose(i) ==
  /\ nextrq' = nextrq + 1 /\ trace'.nclose[i] = trace.nclose[i] + 1
  /\ runner'.q = <<>>

SynthHalfClose(i) ==
  /\ nextrq' = nextrq + 1 /\ trace'.nclose = trace.nclose
  /\ runner'.q = <<>>
  /\ SockOpen(St, ios[i].sockfd)
       => sock'[ios[i].sockfd].shut = sock[ios[i].sockfd].shut + 1
  /\ ios'[i].watching_signals \subseteq
       (ios[i].watching_signals \ Head(runner.results).observed)
         \cup {PEER_CLOSED}

DetachAll(i) ==
  /\ nextrq' = nextrq /\ trace'.nclose = trace.nclose
  /\ runner'.q = wait_socket[ios[i].sockfd]
  /\ runner'.q # <<>> => runner'.signals = Head(runner.results).observed
  /\ wait_socket'[ios[i].sockfd] = <<>>
  /\ ios'[i].watching_signals =
       ios[i].watching_signals \ Head(runner.results).observed

DispatchNothing(i) ==
  /\ nextrq' = nextrq /\ trace'.nclose = trace.nclose
  /\ runner'.q = <<>>
  /\ wait_socket' = wait_socket
  /\ ios'[i].watching_signals =
       ios[i].watching_signals \ Head(runner.results).observed

\* C29: for a wait-set result with observed mask S the watcher does exactly
\* one thing, in this priority: CLOSE when PEER_CLOSED is in S and READABLE is
\* not; else HALFCLOSE when HALFCLOSED is in S and READABLE is not; else,
\* when S meets the watching_signals held before the event, it detaches all
\* client-wait requests of the sockfd for dispatch with mask S; otherwise it
\* dispatches nothing. The observed signals leave watching_signals first.
C29_WatcherPriority ==
  [][(WatcherStep /\ ios[Head(runner.results).cookie].state = "live")
     => LET i == Head(runner.results).cookie
            S == Head(runner.results).observed
        IN IF PEER_CLOSED \in S /\ READABLE \notin S THEN SynthClose(i)
           ELSE IF HALFCLOSED \in S /\ READABLE \notin S
           THEN SynthHalfClose(i)
           ELSE IF S \cap ios[i].watching_signals # {} THEN DetachAll(i)
           ELSE DispatchNothing(i)]_vars

\* The watcher met PEER_CLOSED together with READABLE: no CLOSE was
\* synthesized and the detached client-wait requests await dispatch with
\* the observed mask.
C29_DetachedWithPeerClosed ==
  /\ runner.q # <<>>
  /\ PEER_CLOSED \in runner.signals /\ READABLE \in runner.signals

\* The router dispatches a WRITE of a live stream whose write buffer is
\* empty, so that the handler pulls from the data endpoint; PullStatus is
\* what that pull returns.
WritePulls ==
  /\ RouterStep
  /\ Head(runner.q).op = "WRITE"
  /\ LET i == Head(runner.q).ios
     IN /\ ios[i].state = "live" /\ ios[i].handle_type = HANDLE_TYPE_STREAM
        /\ ios[i].data_h /\ ios[i].wlen <= 0

PullStatus == mx_socket_read(St, Head(runner.q).ios, RWBUF_SIZE).r

WriteClosed(rq) ==
  /\ trace'.nclose[rq.ios] = trace.nclose[rq.ios] + 1
  /\ nextrq' = nextrq + 1
  /\ rq.id \in trace'.freed
  /\ rq.id \notin QueuedIds(wait_net') \cup QueuedIds(wait_socket')
  /\ trace'.replies = trace.replies

WriteWaitsForClient(rq) ==
  /\ InQueue(wait_socket'[ios[rq.ios].sockfd], rq)
  /\ rq.id \notin QueuedIds(wait_net')
  /\ rq.id \notin trace'.freed
  /\ {READABLE, PEER_CLOSED, HALFCLOSED}
       \subseteq ios'[rq.ios].watching_signals
  /\ trace'.nclose = trace.nclose /\ nextrq' = nextrq

\* C27: when the stream write handler's pull from the pipe returns
\* SHOULD_WAIT and the signals it was dispatched with hold PEER_CLOSED, or
\* when the pull returns PEER_CLOSED, a CLOSE is synthesized and the WRITE
\* completes; when the pull returns SHOULD_WAIT otherwise, the WRITE goes to
\* client-wait with READABLE, PEER_CLOSED and HALFCLOSED all watched.
C27_WritePullWaitsOrCloses ==
  [][WritePulls
     => /\ (PullStatus = ERR_PEER_CLOSED
            \/ (PullStatus = ERR_SHOULD_WAIT
                /\ PEER_CLOSED \in runner.signals))
           => WriteClosed(Head(runner.q))
        /\ (PullStatus = ERR_SHOULD_WAIT /\ PEER_CLOSED \notin runner.signals)
           => WriteWaitsForClient(Head(runner.q))]_vars

\* C9: a stream write handler whose pull finds the client gone synthesizes
\* CLOSE, which calls net_close for the descriptor and sets sockfd to -1;
\* and as long as the IOState lives net_close has been called for its
\* descriptor once if its sockfd is -1 and never otherwise, whatever CLOSE
\* requests the watcher and the RIO dispatcher add.
C9_ClosedExactlyOnce ==
  /\ [](\A i \in IosIds :
          (ios[i].state = "live" /\ trace.fd[i] >= 0)
          => sock[trace.fd[i]].closes
               = IF ios[i].sockfd = -1 THEN 1 ELSE 0)
  /\ [][\A f \in Fds :
          sock'[f].closes > sock[f].closes
          => \E i \in IosIds :
               /\ ios[i].state = "live" /\ ios[i].sockfd = f
               /\ ios'[i].sockfd = -1
               /\ trace'.nclose[i] = trace.nclose[i] + 1
               /\ sock'[f].closes = 1]_vars
  /\ [][(WritePulls /\ PullStatus = ERR_PEER_CLOSED)
        => LET i == Head(runner.q).ios
           IN /\ trace'.nclose[i] = trace.nclose[i] + 1
              /\ ios'[i].sockfd = -1
              /\ sock'[ios[i].sockfd].closes = 1]_vars

\* The write handler found the client gone and synthesized CLOSE, a second
\* CLOSE was handled for the IOState, and net_close was called once.
C9_ClosedByWriteThenAgain ==
  \E i \in IosIds :
    /\ trace.wclosed[i] = ERR_PEER_CLOSED /\ trace.nclose[i] >= 2
    /\ ios[i].handle_type = HANDLE_TYPE_STREAM
    /\ trace.fd[i] >= 0 /\ sock[trace.fd[i]].closes = 1

\* The write handler was dispatched with PEER_CLOSED among its signals, its
\* pull from the drained pipe of the closed peer returned SHOULD_WAIT, and it
\* synthesized the CLOSE.
C27_ClosedOnSignal ==
  \E i \in IosIds :
    /\ trace.wclosed[i] = ERR_SHOULD_WAIT /\ trace.nclose[i] = 1
    /\ pipe[i].peer_closed /\ pipe[i].quiet /\ pipe[i].c2s = 0
    /\ PEER_CLOSED \in runner.signals

\* The router dispatches a READ of a live stream whose read buffer is empty,
\* and the backend read it makes returns 0 or fails with an errno other than
\* EWOULDBLOCK.
ReadMeetsClosed ==
  /\ RouterStep
  /\ Head(runner.q).op = "READ"
  /\ LET i == Head(runner.q).ios
     IN /\ ios[i].state = "live" /\ ios[i].handle_type = HANDLE_TYPE_STREAM
        /\ ios[i].rlen <= 0
        /\ LET n == net_read(St, ios[i].sockfd, RWBUF_SIZE)
           IN n.n = 0 \/ n.errno \notin {"", EWOULDBLOCK}

ReadCompleted(rq) ==
  /\ rq.id \in trace'.freed
  /\ rq.id \notin QueuedIds(wait_net') \cup QueuedIds(wait_socket')
  /\ fd_events' = fd_events
  /\ waitset' = waitset
  /\ ios'[rq.ios].watching_signals = ios[rq.ios].watching_signals
  /\ trace'.replies = trace.replies

\* C26: when the backend read of the stream read handler returns 0 or fails
\* with an errno other than EWOULDBLOCK, the handler writes the half-close
\* marker to the data endpoint and returns OK: the READ is completed, not
\* queued again, and nothing is armed. A marker write that fails with
\* PEER_CLOSED is tolerated (OK); any other marker-write failure is the
\* status returned.
C26_ReadEndWritesMarker ==
  [][ReadMeetsClosed
     => LET i == Head(runner.q).ios
        IN /\ ReadCompleted(Head(runner.q))
           /\ IF fault = "half_close" \/ ~ios[i].data_h
              THEN /\ HandlerReturn \notin {NO_ERROR, PENDING_NET,
                                            PENDING_SOCKET}
                   /\ pipe'[i].marker = pipe[i].marker
              ELSE IF pipe[i].peer_closed
              THEN HandlerReturn = NO_ERROR /\ pipe'[i].marker = pipe[i].marker
              ELSE /\ HandlerReturn = NO_ERROR
                   /\ pipe'[i].marker = pipe[i].marker + 1]_vars

\* The backend read failed with ECONNRESET, the READ wrote the half-close
\* marker and is queued nowhere.
C26_MarkerWrittenAtError ==
  \E i \in IosIds :
    /\ ios[i].state = "live" /\ pipe[i].marker = 1
    /\ SockOpen(St, ios[i].sockfd) /\ ~sock[ios[i].sockfd].eof
    /\ ios[i].last_errno = ECONNRESET
    /\ \A k \in DOMAIN wait_net[ios[i].sockfd] :
         wait_net[ios[i].sockfd][k].op # "READ"
    /\ \A k \in DOMAIN wait_socket[ios[i].sockfd] :
         wait_socket[ios[i].sockfd][k].op # "READ"
    /\ \A k \in DOMAIN runner.q : runner.q[k].op # "READ"

\* The bytes handed to net_write so far, followed by the bytes still
\* buffered in wbuf[woff..wlen), are the bytes pulled from the pipe so far.
WrittenThenBuffered ==
  \A i \in IosIds :
    (ios[i].state = "live" /\ ios[i].handle_type = HANDLE_TYPE_STREAM
       /\ trace.fd[i] >= 0)
    => AppendRun(sock[trace.fd[i]].out, ios[i].wbase + ios[i].woff,
                 ios[i].wlen - ios[i].woff)
       = Prefix(pipe[i].pulled)

\* A WRITE dispatched with bytes left in wbuf pulls nothing from the pipe
\* before those bytes are written; if the socket takes none of them the
\* WRITE is parked on net-wait with EVENT_WRITE armed.
ResumesBeforePull ==
  \A i \in IosIds :
    (RouterStep /\ Head(runner.q).op = "WRITE" /\ Head(runner.q).ios = i
       /\ ios[i].state = "live" /\ ios[i].handle_type = HANDLE_TYPE_STREAM
       /\ ios[i].woff < ios[i].wlen)
    => /\ pipe'[i].pulled = pipe[i].pulled /\ pipe'[i].c2s = pipe[i].c2s
       /\ ios'[i].wbase = ios[i].wbase
       /\ HandlerReturn = PENDING_NET
          => /\ ParkedOnNet(Head(runner.q))
             /\ ios'[i].wlen = ios[i].wlen /\ ios'[i].woff >= ios[i].woff

\* C28: on a stream, the bytes passed to net_write are, in order, exactly
\* the bytes pulled from the pipe; after EWOULDBLOCK or a short write the
\* handler resumes at woff, skipping and resending nothing, and it pulls no
\* new data from the pipe while woff < wlen.
C28_WriteBytesInOrder ==
  []WrittenThenBuffered /\ [][ResumesBeforePull]_vars

\* A full buffer and one more byte have reached the socket as one run, after
\* a short write and EWOULDBLOCK suspended the WRITE at woff > 0.
C28_Resumed ==
  \E i \in IosIds :
    /\ ios[i].state = "live" /\ trace.fd[i] >= 0
    /\ ios[i].handle_type = HANDLE_TYPE_STREAM
    /\ sock[trace.fd[i]].out = << <<0, RWBUF_SIZE + 1>> >>

\* The step answers an OPEN with a failure status.
OpenFails ==
  /\ Len(trace'.replies) = Len(trace.replies) + 1
  /\ trace'.replies[Len(trace'.replies)].op = "OPEN"
  /\ trace'.replies[Len(trace'.replies)].status # NO_ERROR

\* C23: an OPEN that fails after its handler (do_none, do_socket, do_accept)
\* allocated an IOState releases that IOState: no IOState allocated by a
\* failed OPEN remains live.
C23_FailedOpenReleases ==
  [][OpenFails
     => \A i \in IosIds : ios'[i].state = "live" => ios[i].state = "live"]_vars

\* C24: whenever the write of a reply to the RIO channel fails, every
\* handle of the unsent reply is closed, for STATUS and OPEN replies alike:
\* no handle of an unsent reply stays open.
C24_UnsentHandlesClosed == trace.unsent = 0

\* This step is LISTEN on the RIO channel of the live IOState i.
ListenStep(i) ==
  /\ Idle /\ budget.accept > 0 /\ budget'.accept # budget.accept
  /\ i \in dispatcher /\ ios[i].state = "live"
  /\ ios[i].handle_type # HANDLE_TYPE_NONE
  /\ LET p == request_pack([St EXCEPT !.budget.accept = @ - 1], "LISTEN", i)
     IN St' = handle_request(p.s, p.rq, {}, {})

\* This step is GETSOCKOPT(SOL_SOCKET, SO_ERROR) on the RIO channel of the
\* live IOState i.
SoErrorStep(i) ==
  /\ Idle /\ budget.ops > 0 /\ budget'.ops # budget.ops
  /\ i \in dispatcher /\ ios[i].state = "live"
  /\ ios[i].handle_type # HANDLE_TYPE_NONE
  /\ St' = GetsockoptOn(i, SOL_SOCKET, SO_ERROR)

\* C25: last_errno holds the errno of the most recent backend call made on
\* the IOState, 0 ("") after a success: after LISTEN it is the errno of
\* net_listen. GETSOCKOPT(SOL_SOCKET, SO_ERROR) answers with last_errno
\* without calling the backend and leaves last_errno unchanged.
C25_LastErrnoIsLatest ==
  [][\A i \in IosIds :
       /\ ListenStep(i)
          => ios'[i].last_errno = net_listen(St, ios[i].sockfd).errno
       /\ SoErrorStep(i)
          => /\ trace'.optval = ios[i].last_errno
             /\ ios'[i].last_errno = ios[i].last_errno
             /\ sock' = sock]_vars

\* The client of socket IOState i has closed its data endpoint, and the
\* socket has not been closed.
PeerGone(i) ==
  /\ ios[i].state = "live" /\ ios[i].handle_type # HANDLE_TYPE_NONE
  /\ ios[i].data_h /\ pipe[i].peer_closed
  /\ trace.nclose[i] = 0

\* C21: once the client has closed its data endpoint, CLOSE is eventually
\* synthesized for the IOState and its fd is closed, whatever signals are
\* watched, whatever requests are pending and whether or not unread data is
\* left in the pipe.
C21_PeerGoneLeadsToClose ==
  \A i \in IosIds : PeerGone(i) ~> (trace.nclose[i] > 0)

\* The watcher has written the result byte of round k.
ResultWritten(k) ==
  k < hw.wround \/ (k = hw.wround /\ hw.wpc = "recv")

\* C22: in every round, from handle_watcher_start to the return of
\* handle_watcher_stop, the result of the stop is 1 exactly when the
\* watcher's wait of that round returned an entry other than the control
\* entry with observed signals; the watcher writes the interrupt byte in
\* exactly the rounds whose result is 1, and before it writes the result.
C22_ResultIffFound ==
  /\ \A k \in 1..Len(hw.ret) : hw.ret[k] = 1 <=> k \in hw.found
  /\ \A k \in 1..Len(hw.ret) : hw.ret[k] = 1 <=> k \in hw.intr
  /\ \A k \in 1..hw.wround :
       ResultWritten(k) => (k \in hw.intr <=> k \in hw.found)
  /\ hw.intr \subseteq hw.found

\* A round whose stop sent ABORT returned 0 and the next round, in which a
\* socket entry fired, returned 1 after the interrupt byte was written.
C22_ZeroThenOne ==
  /\ Len(hw.ret) >= 2 /\ hw.ret[1] = 0 /\ hw.ret[2] = 1
  /\ 2 \in hw.intr /\ 1 \notin hw.intr

\* The controller is inside handle_watcher_stop, past the probe.
InStop == hw.cpc \in {"abort", "await"}

\* One result byte per START, consumed by the stop of that round; between
\* rounds nothing but one ignored ABORT is left in the control channel.
OneResultPerStart ==
  /\ Len(hw.res) <= 1
  /\ \A k \in DOMAIN hw.res : hw.res[k].round = hw.round
  /\ hw.wround <= hw.round
  /\ hw.cpc # "idle" => Len(hw.ret) = hw.round - 1
  /\ hw.cpc = "idle"
       => /\ hw.res = <<>> /\ Len(hw.ret) = hw.round
          /\ hw.wround = hw.round /\ hw.wpc = "recv"
          /\ hw.cmds \in {<<>>, <<ABORT>>}

\* C30: the START/ABORT handshake never deadlocks, whether stop is called
\* before the watcher read START, while it is blocked in the wait-set or
\* after it wrote the result: handle_watcher_stop eventually returns, every
\* START produces exactly one result byte, which the stop of that round
\* consumes, and an ABORT left over is consumed and ignored before the next
\* START is read.
C30_HandshakeTerminates ==
  []OneResultPerStart /\ (InStop ~> hw.cpc = "idle")

\* Two stops have returned and the ABORT of the second is still in the
\* control channel: the watcher had written its result before it was sent.
C30_LeftoverAbort ==
  /\ hw.cpc = "idle" /\ Len(hw.ret) = 2
  /\ hw.cmds = <<ABORT>>

\* C31: a create_handles call that fails leaves none of the handles it
\* created open, takes no reference, leaves ios->data_h invalid, stores no
\* handle through peer_rio_h or peer_data_h and returns a negative status; a
\* call that succeeds takes one reference exactly when the IOState has a data
\* endpoint (stream or datagram).
C31_CreateHandlesAllOrNothing ==
  LET ch == trace.ch
  IN ch.ios # NULL
       => IF ch.r # NO_ERROR
          THEN /\ ch.open = {}
               /\ ch.acquired = 0
               /\ ~ch.data_h
               /\ ch.peer = {}
               /\ ch.r \in {"ERR_NO_MEMORY"}
          ELSE /\ ch.acquired =
                    (IF ch.handle_type \in {HANDLE_TYPE_STREAM,
                                            HANDLE_TYPE_DGRAM}
                     THEN 1 ELSE 0)
               /\ ch.data_h = (ch.handle_type # HANDLE_TYPE_NONE)

\* dispatcher_add failed for a stream socket, after both the RIO channel and
\* the data endpoint had been created.
C31_FailedAfterDataCreated ==
  /\ trace.ch.ios # NULL
  /\ trace.ch.r # NO_ERROR
  /\ trace.ch.handle_type = HANDLE_TYPE_STREAM
  /\ trace.ch.hcount = 2

\* This step is an OPEN arriving on a RIO channel.
OpenStep ==
  /\ budget'.rio = budget.rio - 1
  /\ \E path \in OpenPaths, einval \in BOOLEAN :
       St' = RioRequest("OPEN", NULL,
                        [NoData EXCEPT !.data = path, !.datalen = Len(path),
                                       !.einval = einval])

\* C35: an OPEN that is answered with a negative status hands a reply with
\* zero handles to the channel write, so the reply is written: unless the
\* originating channel itself is gone, every OPEN step writes one reply, and
\* a reply with a negative status counts no handle.
C35_ErrorReplyWritten ==
  [][(OpenStep /\ fault # "reply_write")
     => /\ Len(trace'.replies) = Len(trace.replies) + 1
        /\ LET m == trace'.replies[Len(trace'.replies)]
           IN m.op = "OPEN" /\ (m.status # NO_ERROR => m.hcount = 0)]_vars

\* The watcher synthesizes HALFCLOSE for IOState i in this step: the result
\* at hand shows HALFCLOSED without READABLE and without PEER_CLOSED.
HalfCloseStep(i) ==
  /\ WatcherStep
  /\ Head(runner.results).cookie = i
  /\ HALFCLOSED \in Head(runner.results).observed
  /\ READABLE \notin Head(runner.results).observed
  /\ PEER_CLOSED \notin Head(runner.results).observed

\* What HALFCLOSE leaves alone: sockfd, the references, both wait queues, the
\* armed fd events, the inbound pipeline, and everything of the socket but
\* its count of shutdown calls.
HalfCloseFrame(i) ==
  LET fd == ios[i].sockfd
  IN /\ ios'[i].sockfd = fd
     /\ ios'[i].refcount = ios[i].refcount
     /\ wait_net' = wait_net /\ wait_socket' = wait_socket
     /\ fd_events' = fd_events
     /\ ios'[i].rbuf = ios[i].rbuf
     /\ ios'[i].rlen = ios[i].rlen /\ ios'[i].roff = ios[i].roff
     /\ SockOpen(St, fd) => [sock' EXCEPT ![fd].shut = sock[fd].shut] = sock

\* The router runs READ of a stream whose socket has been shut down for
\* writing, with inbound bytes at hand (in rbuf or in the socket) and room in
\* the data endpoint.
ReadAfterHalfClose(rq) ==
  /\ RouterStep /\ rq = Head(runner.q) /\ rq.op = "READ"
  /\ ios[rq.ios].state = "live"
  /\ ios[rq.ios].handle_type = HANDLE_TYPE_STREAM
  /\ SockOpen(St, ios[rq.ios].sockfd)
  /\ sock[ios[rq.ios].sockfd].shut > 0
  /\ \/ ios[rq.ios].roff < ios[rq.ios].rlen
     \/ ios[rq.ios].rlen <= 0 /\ sock[ios[rq.ios].sockfd].avail > 0
  /\ WRITABLE \in Satisfied(St, rq.ios)

\* C32: HALFCLOSE calls net_shutdown(SHUT_WR) on the socket, leaves
\* PEER_CLOSED in watching_signals and writes no RIO reply; it changes neither
\* sockfd, the refcount, the wait queues nor rbuf, rlen and roff, and a READ
\* dispatched after it still moves socket data to the client.
C32_HalfCloseShutsWriteOnly ==
  [][/\ \A i \in IosIds :
          HalfCloseStep(i)
            => /\ SockOpen(St, ios[i].sockfd)
                 => sock'[ios[i].sockfd].shut = sock[ios[i].sockfd].shut + 1
               /\ PEER_CLOSED \in ios'[i].watching_signals
               /\ trace'.replies = trace.replies
               /\ HalfCloseFrame(i)
     /\ \A k \in DOMAIN runner.q :
          ReadAfterHalfClose(runner.q[k])
            => pipe'[runner.q[k].ios].s2c > pipe[runner.q[k].ios].s2c]_vars

\* After HALFCLOSE shut the socket down for writing and before the network
\* peer closes, READ is about to run with inbound bytes in the socket and
\* room in the data endpoint.
C32_ReadingAfterHalfClose ==
  \E i \in IosIds :
    /\ ios[i].state = "live" /\ SockOpen(St, ios[i].sockfd)
    /\ sock[ios[i].sockfd].shut > 0
    /\ ~sock[ios[i].sockfd].eof
    /\ runner.q # <<>> /\ Head(runner.q).op = "READ"
    /\ Head(runner.q).ios = i
    /\ sock[ios[i].sockfd].avail > 0
    /\ WRITABLE \in Satisfied(St, i)

\* The client-wait requests keyed by fd in the order in which they were
\* enqueued: those on the queue, then the rest of a batch that the watcher
\* detached and the runner is working through (a request of the batch that
\* suspends again goes to the tail of the queue, which the detaching left
\* empty).
ClientOrder(w, r, io, fd) ==
  LET OfFd(rq) == io[rq.ios].sockfd = fd
  IN w[fd] \o (IF r.events = {} THEN SelectSeq(r.q, OfFd) ELSE <<>>)

\* Request a comes before request b in q.
Before(q, a, b) ==
  \E j, k \in DOMAIN q : j < k /\ q[j].id = a /\ q[k].id = b

\* The step keeps the relative order of the client-wait requests of every
\* fd that are waiting before and after it.
ClientOrderKept ==
  \A fd \in FdKeys :
    LET old == ClientOrder(wait_socket, runner, ios, fd)
        new == ClientOrder(wait_socket', runner', ios', fd)
    IN \A j, k \in DOMAIN old :
         (j < k /\ InQueue(new, old[j]) /\ InQueue(new, old[k]))
           => /\ Before(new, old[j].id, old[k].id)
              /\ ~Before(new, old[k].id, old[j].id)

\* The router runs READ or WRITE and the handler suspends the request again.
SuspendsAgain ==
  /\ RouterStep
  /\ Head(runner.q).op \in {"READ", "WRITE"}
  /\ HandlerReturn \in {PENDING_NET, PENDING_SOCKET}

\* The step leaves every request but rq where it was, disarms no fd event
\* and stops watching no signal of rq's IOState.
OthersUndisturbed(rq) ==
  /\ runner'.q = Tail(runner.q)
  /\ \A fd \in FdKeys :
       /\ wait_net'[fd] \in {wait_net[fd], Append(wait_net[fd], rq)}
       /\ wait_socket'[fd] \in {wait_socket[fd], Append(wait_socket[fd], rq)}
       /\ fd_events[fd] \subseteq fd_events'[fd]
  /\ ios[rq.ios].watching_signals \subseteq ios'[rq.ios].watching_signals

\* C33: the client-wait requests of one sockfd keep their relative order
\* from step to step, through the watcher detaching them, the runner
\* dispatching them from the head and the router putting those that suspend
\* again back at the tail; READ or WRITE suspending again moves no other
\* request and disarms nothing the other direction waits for.
C33_ClientWaitFifo ==
  [][/\ ClientOrderKept
     /\ SuspendsAgain => OthersUndisturbed(Head(runner.q))]_vars

\* A batch of two requests detached from client-wait has been dispatched and
\* both have suspended on client-wait again.
C33_BatchRequeued ==
  \E fd \in Fds :
    /\ runner.q = <<>> /\ runner.events = {} /\ runner.signals # {}
    /\ Len(wait_socket[fd]) = 2
    /\ wait_socket[fd][1].op # wait_socket[fd][2].op

\* The buffers on the free list.
FreeBufs == {rwbuf_head[k] : k \in DOMAIN rwbuf_head}

\* A holder gets a buffer in this step, or puts the one it has.
GetsBuf(h) == trace.held[h] = NULL /\ trace'.held[h] # NULL

PutsBuf(h) == trace.held[h] # NULL /\ trace'.held[h] = NULL

\* No buffer is on the free list twice, on the free list and handed out, or
\* handed out to two holders.
BufsApart ==
  /\ \A j, k \in DOMAIN rwbuf_head : j # k => rwbuf_head[j] # rwbuf_head[k]
  /\ \A h \in Holders : trace.held[h] \notin FreeBufs
  /\ \A g, h \in Holders :
       (g # h /\ trace.held[g] # NULL) => trace.held[g] # trace.held[h]

\* C34: with every buffer put at most once per get, get_rwbuf returns the
\* buffer put most recently among the free ones and allocates a buffer that
\* no one has seen only when none is free; put_rwbuf(NULL) changes nothing;
\* no buffer is on the free list and handed out, or handed out twice.
C34_PoolLifo ==
  /\ []BufsApart
  /\ [][/\ \A h \in Holders :
             GetsBuf(h)
               => IF trace.puts # <<>>
                  THEN /\ trace'.held[h] = trace.puts[Len(trace.puts)]
                       /\ nmalloc' = nmalloc
                  ELSE /\ trace'.held[h] \notin
                            FreeBufs \cup {trace.held[g] : g \in Holders}
                       /\ trace'.held[h] = nmalloc'
                       /\ nmalloc' = nmalloc + 1
        /\ \A h \in Holders :
             PutsBuf(h) => /\ trace.held[h] \in FreeBufs'
                           /\ nmalloc' = nmalloc
        /\ (budget'.pool # budget.pool /\ trace'.held = trace.held)
             => rwbuf_head' = rwbuf_head /\ nmalloc' = nmalloc]_vars

\* Five calls in, two buffers have been allocated, buffer 1 is free and a
\* holder has buffer 2: as after get, get, put(1), put(2), get.
C34_LastPutFirstGot ==
  /\ nmalloc = 2
  /\ trace.puts = <<1>>
  /\ \E h \in Holders : trace.held[h] = 2
  /\ budget.pool = MaxPoolCalls - 5

\* The number of places where a request with op `op` of IOState i sits.
PlacesOf(i, op) ==
  LET n(q) == Cardinality(OpsOf(q, i, op))
      RECURSIVE sum(_)
      sum(F) == IF F = {} THEN 0
                ELSE LET fd == CHOOSE f \in F : TRUE
                     IN n(wait_net[fd]) + n(wait_socket[fd]) + sum(F \ {fd})
  IN sum(FdKeys) + n(runner.q)

\* C36: a live IOState has at most one READ request and at most one WRITE
\* request in all, counting net-wait, client-wait and the batch being
\* dispatched.
C36_OneReadOneWrite ==
  \A i \in IosIds :
    ios[i].state = "live"
      => /\ PlacesOf(i, "READ") <= 1
         /\ PlacesOf(i, "WRITE") <= 1

\* C5: an IOState has a waitset entry exactly when watching_signals is not
\* empty.
C5_EntryIffWatching ==
  \A i \in IosIds :
    ios[i].state = "live"
    => (ios[i].watching_signals # {} <=> i \in DOMAIN waitset)

====
